---- MODULE Spec2Model ----
(***************************************************************************)
(* Pictaflux: the brush-pack (ABR) decoder, its run-length decoder, the    *)
(* descriptor decoder and dynamics normalizer, and the stroke engine.      *)
(*                                                                         *)
(* Conventions.                                                            *)
(*  - A buffer is a sequence of bytes (0..255); the reader's cursor is a   *)
(*    0-based offset, so byte k of the file is buf[k+1].                   *)
(*  - A read that the DataView would reject with a RangeError is a result  *)
(*    record with ok = FALSE; pos is the cursor at the time of the throw.  *)
(*  - Strings are sequences of character codes.                            *)
(*  - 32-bit fields are decoded exactly; the inputs keep every unsigned    *)
(*    32-bit field below 2^31 (the checker's integers are 32 bits wide and *)
(*    it stops with an error, never wraps, if that is exceeded).           *)
(***************************************************************************)
EXTENDS Integers, Sequences, FiniteSets, TLC

VARIABLES
  \* ---- parseAbr: one import of one buffer
  file,         \* the parameters the input buffer was built from (never read by the decoder)
  buffer,       \* the ArrayBuffer handed to parseAbr
  offset,       \* AbrReader._offset
  pc,           \* position of parseAbr
  version,      \* the version field once read, -1 before
  route,        \* decoder the buffer was routed to: "none", "legacy", "v6"
  error,        \* "none", or the exception that left parseAbr
  brushes,      \* AbrRawBrush[] being built
  count,        \* parseAbrV1V2: declared brush count
  entryIdx,     \* parseAbrV1V2: loop index i
  blocks,       \* parseAbrV6Plus: recorded 8BIM blocks
  blockIdx,     \* parseAbrV6Plus: index into blocks of the samp loop
  blockEnd,     \* parseAbrV6Plus: end of the samp block being read
  brushIdx,     \* parseAbrV6Plus: brushIdx of the samp block being read
  descPresets,  \* parseAbrV6Plus: decoded desc.Brsh
  mergeIdx,     \* mergeDescriptorDynamics: index of the next preset
  entryLog,     \* history: one record per entry processed, in order
  \* ---- readRlePixels on an encoded channel
  rlePc, rleW, rleH, rleDepth, rleSrc, rleBody, rleLens, rleStream, rleDone,
  rleNoops, rleCut, rleOut,
  \* ---- BrushEngine: a coarse and a fine stroke over the same path
  strokePc, engine, stroke, stamps, path, fed,
  \* ---- BrushEngine driven by arbitrary calls
  calls,        \* history: one record per call made on the engine, in order
  \* ---- one preset through the dynamics normalizer
  normPc, normIn, normDesc, normOut, normTip,
  \* ---- readDescriptor on one descriptor
  descPc, descIn, descOut,
  \* ---- one AbrReader under arbitrary calls
  rdView,       \* the bytes of AbrReader.view
  rdOffset,     \* AbrReader._offset
  rdLast,       \* history: the last call made on the reader
  \* ---- loadAbrFile and handleImport: one import
  loadPc,       \* position of loadAbrFile / handleImport
  rawBrushes,   \* what parseAbr returned
  loadIdx,      \* the brush the for loop is at
  results,      \* loadAbrFile: results
  creating,     \* brushes whose createImageBitmap promise is outstanding
  loadLog,      \* history: creations started, completed and failed, in order
  libPresets,   \* BrushLibrary: presets
  \* ---- parseAbr on a file and on the same file with its blocks reversed
  orderRun,     \* 1 while the file is parsed as built, 2 once its blocks are reversed
  firstRun,     \* what parseAbr left for the file as built
  \* ---- BrushEngine.applyController
  ctlCall,      \* the last call: its arguments and what it returned
  \* ---- LayerManager
  lmPc,         \* "new" before init, "ready", "disposed" after dispose
  layers,       \* LayerManager.layers: the ids of the layers, bottom first
  activeLayerId,
  nextId        \* the module-level id counter of Layer

abrVars == <<file, buffer, offset, pc, version, route, error, brushes, count,
             entryIdx, blocks, blockIdx, blockEnd, brushIdx, descPresets,
             mergeIdx, entryLog>>
rleVars == <<rlePc, rleW, rleH, rleDepth, rleSrc, rleBody, rleLens, rleStream,
             rleDone, rleNoops, rleCut, rleOut>>
strokeVars == <<strokePc, engine, stroke, stamps, path, fed>>
normVars == <<normPc, normIn, normDesc, normOut, normTip>>
descVars == <<descPc, descIn, descOut>>
readerVars == <<rdView, rdOffset, rdLast>>
loadVars == <<loadPc, rawBrushes, loadIdx, results, creating, loadLog, libPresets>>
orderVars == <<orderRun, firstRun>>
layerVars == <<lmPc, layers, activeLayerId, nextId>>
extraVars == <<ctlCall, layerVars>>
sideVars == <<calls, normVars, descVars, readerVars, loadVars, orderVars, extraVars>>
vars == <<abrVars, rleVars, strokeVars, sideVars>>

Byte == 0..255

Max(a, b) == IF a >= b THEN a ELSE b
Min(a, b) == IF a <= b THEN a ELSE b

(***************************************************************************)
(* AbrReader: big-endian reads over a fixed buffer.                        *)
(***************************************************************************)

\* DataView.getXxx(offset) accepts the read iff the n bytes lie in the buffer.
InRange(buf, pos, n) == pos >= 0 /\ pos + n <= Len(buf)

remaining(buf, pos) == Len(buf) - pos

Failed(pos) == [ok |-> FALSE, v |-> 0, pos |-> pos]
Got(v, pos) == [ok |-> TRUE, v |-> v, pos |-> pos]

readUint8(buf, pos) ==
  IF InRange(buf, pos, 1) THEN Got(buf[pos + 1], pos + 1) ELSE Failed(pos)

readInt8(buf, pos) ==
  IF InRange(buf, pos, 1)
  THEN Got(IF buf[pos + 1] >= 128 THEN buf[pos + 1] - 256 ELSE buf[pos + 1], pos + 1)
  ELSE Failed(pos)

readUint16(buf, pos) ==
  IF InRange(buf, pos, 2)
  THEN Got(buf[pos + 1] * 256 + buf[pos + 2], pos + 2)
  ELSE Failed(pos)

readInt16(buf, pos) ==
  IF InRange(buf, pos, 2)
  THEN Got((IF buf[pos + 1] >= 128 THEN buf[pos + 1] - 256 ELSE buf[pos + 1]) * 256
           + buf[pos + 2], pos + 2)
  ELSE Failed(pos)

readUint32(buf, pos) ==
  IF InRange(buf, pos, 4)
  THEN Got(buf[pos + 1] * 16777216 + buf[pos + 2] * 65536
           + buf[pos + 3] * 256 + buf[pos + 4], pos + 4)
  ELSE Failed(pos)

readInt32(buf, pos) ==
  IF InRange(buf, pos, 4)
  THEN Got((IF buf[pos + 1] >= 128 THEN buf[pos + 1] - 256 ELSE buf[pos + 1]) * 16777216
           + buf[pos + 2] * 65536 + buf[pos + 3] * 256 + buf[pos + 4], pos + 4)
  ELSE Failed(pos)

\* readSignature increments the cursor before each of its four byte reads, so
\* a throw on the k-th byte (k = 0..3) leaves the cursor k+1 past the start.
readSignature(buf, pos) ==
  IF InRange(buf, pos, 4)
  THEN [ok |-> TRUE, v |-> SubSeq(buf, pos + 1, pos + 4), pos |-> pos + 4]
  ELSE [ok |-> FALSE, v |-> <<>>,
        pos |-> IF pos >= Len(buf) THEN pos + 1 ELSE Len(buf) + 1]

\* A readBytes that hands out what is left of the buffer when n is too many.
readBytesClamped(buf, pos, n) ==
  [ok |-> TRUE, v |-> SubSeq(buf, pos + 1, Min(pos + n, Len(buf))),
   pos |-> Min(pos + n, Len(buf))]

\* new Uint8Array(buffer, offset, n) rejects a view that leaves the buffer.
readBytes(buf, pos, n) ==
  IF InRange(buf, pos, n)
  THEN [ok |-> TRUE, v |-> SubSeq(buf, pos + 1, pos + n), pos |-> pos + n]
  ELSE [ok |-> FALSE, v |-> <<>>, pos |-> pos]

(***************************************************************************)
(* Pixel decompression.                                                    *)
(***************************************************************************)

Fill(n, b) == [i \in 1..n |-> b]

\* readRawPixels: depth 8 copies, depth 16 keeps the high byte of each
\* sample, any other depth fills with 255 and skips the span.  The skip of
\* count * (depth / 8) is kept to whole bytes here: in the only caller that
\* reaches it the cursor is overwritten by seek(endPos) before the next read.
readRawPixels(buf, pos, width, height, depth) ==
  LET n == width * height IN
  IF depth = 8 THEN
    LET r == readBytes(buf, pos, n) IN
    [ok |-> r.ok, pixels |-> r.v, pos |-> r.pos]
  ELSE IF depth = 16 THEN
    IF InRange(buf, pos, 2 * n)
    THEN [ok |-> TRUE, pixels |-> [i \in 1..n |-> buf[pos + 2 * i - 1]], pos |-> pos + 2 * n]
    ELSE [ok |-> FALSE, pixels |-> <<>>,
          pos |-> IF pos >= Len(buf) THEN pos ELSE pos + 2 * ((Len(buf) - pos) \div 2)]
  ELSE [ok |-> TRUE, pixels |-> Fill(n, 255), pos |-> pos + (n * depth) \div 8]

\* One sample of the RLE stream: a byte, or the high byte of a 16-bit value.
RleSample(buf, pos, bpp) ==
  IF bpp = 2
  THEN (LET r == readUint16(buf, pos) IN [ok |-> r.ok, v |-> r.v \div 256, pos |-> r.pos])
  ELSE readUint8(buf, pos)

\* The inner loop of a literal run: up to cnt samples, stopping at total.
RECURSIVE RleLiteral(_, _, _, _, _, _)
RleLiteral(buf, pos, bpp, out, cnt, total) ==
  IF cnt = 0 \/ Len(out) >= total THEN [ok |-> TRUE, out |-> out, pos |-> pos]
  ELSE LET s == RleSample(buf, pos, bpp) IN
       IF ~s.ok THEN [ok |-> FALSE, out |-> out, pos |-> s.pos]
       ELSE RleLiteral(buf, s.pos, bpp, Append(out, s.v), cnt - 1, total)

\* A repeat run taken to be -n copies instead of 1-n.
RleRepeatCountShort(n) == 0 - n

\* The repeat count of a control byte n in -127..-1.
RleRepeatCount(n) == 1 - n

\* while (outIdx < total): one control byte per iteration.
RECURSIVE RleLoop(_, _, _, _, _)
RleLoop(buf, pos, bpp, out, total) ==
  IF Len(out) >= total THEN [ok |-> TRUE, out |-> out, pos |-> pos]
  ELSE IF remaining(buf, pos) < 1 THEN [ok |-> TRUE, out |-> out, pos |-> pos]
  ELSE
    LET c == readInt8(buf, pos) IN
    IF ~c.ok THEN [ok |-> FALSE, out |-> out, pos |-> c.pos]
    ELSE IF c.v >= 0 THEN
      LET l == RleLiteral(buf, c.pos, bpp, out, c.v + 1, total) IN
      IF ~l.ok THEN l ELSE RleLoop(buf, l.pos, bpp, l.out, total)
    ELSE IF c.v > -128 THEN
      LET s == RleSample(buf, c.pos, bpp) IN
      IF ~s.ok THEN [ok |-> FALSE, out |-> out, pos |-> s.pos]
      ELSE RleLoop(buf, s.pos, bpp,
                   out \o Fill(Min(RleRepeatCount(c.v), total - Len(out)), s.v), total)
    ELSE RleLoop(buf, c.pos, bpp, out, total)

\* readRlePixels: the per-scanline length headers are read and dropped, then
\* the PackBits loop runs.  pixels is the zero-initialised Uint8Array with
\* the decoded prefix written into it.
readRlePixels(buf, pos, width, height, depth) ==
  LET total == width * height
      bpp == IF depth = 16 THEN 2 ELSE 1
  IN
  IF ~InRange(buf, pos, 2 * height)
  THEN [ok |-> FALSE, pixels |-> Fill(total, 0),
        pos |-> IF pos >= Len(buf) THEN pos ELSE pos + 2 * ((Len(buf) - pos) \div 2)]
  ELSE LET r == RleLoop(buf, pos + 2 * height, bpp, <<>>, total) IN
       [ok |-> r.ok, pixels |-> r.out \o Fill(total - Len(r.out), 0), pos |-> r.pos]

(***************************************************************************)
(* Numbers.  A JavaScript number is kept as an exact fraction num/den      *)
(* (den > 0, reduced); rad marks a value that carries the factor pi/180    *)
(* (untfValue of an angle), which no comparison below needs expanded.      *)
(***************************************************************************)

Abs(a) == IF a < 0 THEN 0 - a ELSE a

RECURSIVE Gcd(_, _)
Gcd(a, b) == IF b = 0 THEN a ELSE Gcd(b, a % b)

Q(n, d) ==
  LET g == Gcd(Abs(n), Abs(d))
      s == IF d < 0 THEN 0 - 1 ELSE 1
  IN [num |-> (s * n) \div g, den |-> (s * d) \div g, rad |-> FALSE]

Zero == Q(0, 1)
IsPositive(q) == q.num > 0
IsZero(q) == q.num = 0

\* Arithmetic on fractions.
QAdd(a, b) == Q(a.num * b.den + b.num * a.den, a.den * b.den)
QSub(a, b) == Q(a.num * b.den - b.num * a.den, a.den * b.den)
QMul(a, b) == Q(a.num * b.num, a.den * b.den)
QLeq(a, b) == a.num * b.den <= b.num * a.den
QMin(a, b) == IF QLeq(a, b) THEN a ELSE b
One == Q(1, 1)

(***************************************************************************)
(* Descriptor values.  Every decoded value is a record of one shape:       *)
(*   t     "undef", "null", "num", "bool", "str", "untf", "list", "obj"    *)
(*   s     the characters of a string, the unit of a unit-valued double    *)
(*   n     the number of a number or of a unit-valued double               *)
(*   b     the boolean                                                     *)
(*   keys  the keys of an object, in insertion order                       *)
(*   items the items of a list, the values of an object (by key position)  *)
(***************************************************************************)

NaN == [num |-> 0, den |-> 0, rad |-> FALSE]

VUndef == [t |-> "undef", s |-> <<>>, n |-> Zero, b |-> FALSE, keys |-> <<>>, items |-> <<>>]
VNull == [VUndef EXCEPT !.t = "null"]
VNum(q) == [VUndef EXCEPT !.t = "num", !.n = q]
VBool(b) == [VUndef EXCEPT !.t = "bool", !.b = b]
VStr(s) == [VUndef EXCEPT !.t = "str", !.s = s]
VUntF(unit, q) == [VUndef EXCEPT !.t = "untf", !.s = unit, !.n = q]
VList(items) == [VUndef EXCEPT !.t = "list", !.items = items]
VObj(keys, items) == [VUndef EXCEPT !.t = "obj", !.keys = keys, !.items = items]

\* obj[key] = v
ObjSet(obj, key, v) ==
  IF \E i \in 1..Len(obj.keys) : obj.keys[i] = key
  THEN LET i == CHOOSE i \in 1..Len(obj.keys) : obj.keys[i] = key
       IN [obj EXCEPT !.items[i] = v]
  ELSE [obj EXCEPT !.keys = Append(@, key), !.items = Append(@, v)]

\* x.key for any value x but null and undefined: own properties of an object,
\* undefined on everything else.
Prop(x, key) ==
  IF x.t = "obj" /\ \E i \in 1..Len(x.keys) : x.keys[i] = key
  THEN x.items[CHOOSE i \in 1..Len(x.keys) : x.keys[i] = key]
  ELSE VUndef

\* Property access throws a TypeError on null and undefined.
PropThrows(x) == x.t \in {"null", "undef"}

\* JavaScript truthiness.
Truthy(x) ==
  CASE x.t \in {"undef", "null"} -> FALSE
    [] x.t = "num" -> ~IsZero(x.n)
    [] x.t = "bool" -> x.b
    [] x.t = "str" -> x.s # <<>>
    [] OTHER -> TRUE

(***************************************************************************)
(* readFloat64.  The doubles decoded exactly are zero and the normal       *)
(* numbers whose mantissa fits its upper 20 bits; every other bit pattern  *)
(* (which includes the NaNs) reads as NaN.                                 *)
(***************************************************************************)

RECURSIVE Pow2(_)
Pow2(k) == IF k = 0 THEN 1 ELSE 2 * Pow2(k - 1)

Float64Value(b) ==
  LET sign == IF b[1] >= 128 THEN 0 - 1 ELSE 1
      exp == (b[1] % 128) * 16 + (b[2] \div 16)
      top == (b[2] % 16) * 65536 + b[3] * 256 + b[4]
      low == b[5] + b[6] + b[7] + b[8]
      m == 1048576 + top
      g == Gcd(m, 1048576)
      e == exp - 1023
  IN IF exp = 0 /\ top = 0 /\ low = 0 THEN Zero
     ELSE IF exp = 0 \/ exp = 2047 \/ low # 0 \/ e > 9 \/ e < 0 - 10 THEN NaN
     ELSE IF e >= 0 THEN Q(sign * (m \div g) * Pow2(e), 1048576 \div g)
     ELSE Q(sign * (m \div g), (1048576 \div g) * Pow2(0 - e))

readFloat64(buf, pos) ==
  IF InRange(buf, pos, 8)
  THEN [ok |-> TRUE, v |-> Float64Value(SubSeq(buf, pos + 1, pos + 8)), pos |-> pos + 8]
  ELSE [ok |-> FALSE, v |-> Zero, pos |-> pos]

(***************************************************************************)
(* The descriptor decoder.  A result is [ok, v, pos]; ok = FALSE is an     *)
(* exception in flight, pos the cursor where it was thrown.                *)
(***************************************************************************)

Threw(pos) == [ok |-> FALSE, v |-> VUndef, pos |-> pos]
Value(v, pos) == [ok |-> TRUE, v |-> v, pos |-> pos]

\* uint32 length, then that many UTF-16BE code units.
readUnicodeString(buf, pos) ==
  LET n == readUint32(buf, pos) IN
  IF ~n.ok THEN [ok |-> FALSE, v |-> <<>>, pos |-> pos]
  ELSE LET fit == (Len(buf) - n.pos) \div 2 IN
       IF n.v <= fit
       THEN [ok |-> TRUE, pos |-> n.pos + 2 * n.v,
             v |-> [i \in 1..n.v |-> buf[n.pos + 2 * i - 1] * 256 + buf[n.pos + 2 * i]]]
       ELSE [ok |-> FALSE, v |-> <<>>, pos |-> n.pos + 2 * fit]

\* uint32 length, then a 4-character signature (length 0) or that many characters.
readKey(buf, pos) ==
  LET n == readUint32(buf, pos) IN
  IF ~n.ok THEN [ok |-> FALSE, v |-> <<>>, pos |-> pos]
  ELSE IF n.v = 0 THEN readSignature(buf, n.pos)
  ELSE IF n.v <= Len(buf) - n.pos
       THEN [ok |-> TRUE, v |-> SubSeq(buf, n.pos + 1, n.pos + n.v), pos |-> n.pos + n.v]
       ELSE [ok |-> FALSE, v |-> <<>>, pos |-> Len(buf)]

TagObjc == <<79, 98, 106, 99>>
TagGlbO == <<71, 108, 98, 79>>
TagVlLs == <<86, 108, 76, 115>>
TagUntF == <<85, 110, 116, 70>>
TagDoub == <<100, 111, 117, 98>>
TagLong == <<108, 111, 110, 103>>
TagBool == <<98, 111, 111, 108>>
TagTEXT == <<84, 69, 88, 84>>
TagEnum == <<101, 110, 117, 109>>
TagTdta == <<116, 100, 116, 97>>
TagObj == <<111, 98, 106, 32>>
TagType == <<116, 121, 112, 101>>
TagGlbC == <<71, 108, 98, 67>>
TagAlis == <<97, 108, 105, 115>>
TagObAr == <<79, 98, 65, 114>>
TagPth == <<80, 116, 104, 32>>
RefProp == <<112, 114, 111, 112>>
RefClss == <<67, 108, 115, 115>>
RefEnmr == <<69, 110, 109, 114>>
RefRele == <<114, 101, 108, 101>>
RefIdnt == <<73, 100, 110, 116>>
RefIndx == <<105, 110, 100, 120>>
RefName == <<110, 97, 109, 101>>

\* A run of reads whose values are dropped: "u" readUnicodeString, "k"
\* readKey, "i" readInt32.  The first failure stops the run.
RECURSIVE SkipReads(_, _, _)
SkipReads(buf, pos, what) ==
  IF what = <<>> THEN [ok |-> TRUE, pos |-> pos]
  ELSE LET r == CASE Head(what) = "u" -> readUnicodeString(buf, pos)
                  [] Head(what) = "k" -> readKey(buf, pos)
                  [] OTHER -> readInt32(buf, pos)
       IN IF ~r.ok THEN [ok |-> FALSE, pos |-> r.pos]
          ELSE SkipReads(buf, r.pos, Tail(what))

\* The items of an "obj " reference: each fully read and dropped; an unknown
\* reference form ends the reference where the cursor stands.
RECURSIVE ReadReference(_, _, _)
ReadReference(buf, pos, left) ==
  IF left = 0 THEN Value(VNull, pos)
  ELSE LET sig == readSignature(buf, pos) IN
    IF ~sig.ok THEN Threw(sig.pos)
    ELSE LET what == CASE sig.v = RefProp -> <<"u", "k", "k">>
                       [] sig.v = RefClss -> <<"u", "k">>
                       [] sig.v = RefEnmr -> <<"u", "k", "k", "k">>
                       [] sig.v = RefRele -> <<"u", "k", "i">>
                       [] sig.v \in {RefIdnt, RefIndx} -> <<"i">>
                       [] sig.v = RefName -> <<"u", "k", "u">>
                       [] OTHER -> <<>>
         IN IF what = <<>> THEN Value(VNull, sig.pos)
            ELSE LET r == SkipReads(buf, sig.pos, what) IN
                 IF ~r.ok THEN Threw(r.pos) ELSE ReadReference(buf, r.pos, left - 1)

RECURSIVE readOSType(_, _, _)
RECURSIVE readDescriptorBody(_, _)
RECURSIVE ReadListItems(_, _, _, _)
RECURSIVE ReadObjectItems(_, _, _, _)

\* for (i < count): a signature, then the value it tags.
ReadListItems(buf, pos, left, acc) ==
  IF left = 0 THEN Value(VList(acc), pos)
  ELSE LET sig == readSignature(buf, pos) IN
    IF ~sig.ok THEN Threw(sig.pos)
    ELSE LET item == readOSType(buf, sig.pos, sig.v) IN
         IF ~item.ok THEN Threw(item.pos)
         ELSE ReadListItems(buf, item.pos, left - 1, Append(acc, item.v))

\* Read a single typed value based on its OSType tag.
readOSType(buf, pos, type) ==
  CASE type \in {TagObjc, TagGlbO} -> readDescriptorBody(buf, pos)
    [] type = TagVlLs ->
         (LET n == readUint32(buf, pos) IN
          IF ~n.ok THEN Threw(pos) ELSE ReadListItems(buf, n.pos, n.v, <<>>))
    [] type = TagUntF ->
         (LET unit == readSignature(buf, pos) IN
          IF ~unit.ok THEN Threw(unit.pos)
          ELSE LET f == readFloat64(buf, unit.pos) IN
               IF ~f.ok THEN Threw(f.pos) ELSE Value(VUntF(unit.v, f.v), f.pos))
    [] type = TagDoub ->
         (LET f == readFloat64(buf, pos) IN
          IF ~f.ok THEN Threw(pos) ELSE Value(VNum(f.v), f.pos))
    [] type = TagLong ->
         (LET n == readInt32(buf, pos) IN
          IF ~n.ok THEN Threw(pos) ELSE Value(VNum(Q(n.v, 1)), n.pos))
    [] type = TagBool ->
         (LET n == readUint8(buf, pos) IN
          IF ~n.ok THEN Threw(pos) ELSE Value(VBool(n.v # 0), n.pos))
    [] type = TagTEXT ->
         (LET u == readUnicodeString(buf, pos) IN
          IF ~u.ok THEN Threw(u.pos) ELSE Value(VStr(u.v), u.pos))
    [] type = TagEnum ->
         (LET a == readKey(buf, pos) IN
          IF ~a.ok THEN Threw(a.pos)
          ELSE LET b == readKey(buf, a.pos) IN
               IF ~b.ok THEN Threw(b.pos) ELSE Value(VStr(a.v \o <<46>> \o b.v), b.pos))
    [] type \in {TagTdta, TagAlis, TagPth} ->
         (LET n == readUint32(buf, pos) IN
          IF ~n.ok THEN Threw(pos) ELSE Value(VNull, n.pos + n.v))
    [] type = TagObj ->
         (LET n == readUint32(buf, pos) IN
          IF ~n.ok THEN Threw(pos) ELSE ReadReference(buf, n.pos, n.v))
    [] type \in {TagType, TagGlbC} ->
         (LET r == SkipReads(buf, pos, <<"u", "k">>) IN
          IF ~r.ok THEN Threw(r.pos) ELSE Value(VNull, r.pos))
    [] type = TagObAr ->
         (LET r == SkipReads(buf, pos, <<"u", "k">>) IN
          IF ~r.ok THEN Threw(r.pos)
          ELSE LET n == readUint32(buf, r.pos) IN
               IF ~n.ok THEN Threw(r.pos) ELSE ReadListItems(buf, n.pos, n.v, <<>>))
    [] OTHER -> Threw(pos)

\* for (i < itemCount): key, tag, value.  A failure of the key or of the tag
\* leaves the object's decoder; a failure inside the value is caught and
\* ends the loop, the keys decoded so far being kept.
ReadObjectItems(buf, pos, left, obj) ==
  IF left = 0 THEN Value(obj, pos)
  ELSE LET key == readKey(buf, pos) IN
    IF ~key.ok THEN Threw(key.pos)
    ELSE LET sig == readSignature(buf, key.pos) IN
      IF ~sig.ok THEN Threw(sig.pos)
      ELSE LET item == readOSType(buf, sig.pos, sig.v) IN
        IF ~item.ok THEN Value(obj, item.pos)
        ELSE ReadObjectItems(buf, item.pos, left - 1, ObjSet(obj, key.v, item.v))

\* Read a descriptor body (class structure + items).
readDescriptorBody(buf, pos) ==
  LET head == SkipReads(buf, pos, <<"u", "k">>) IN
  IF ~head.ok THEN Threw(head.pos)
  ELSE LET n == readUint32(buf, head.pos) IN
       IF ~n.ok THEN Threw(head.pos)
       ELSE ReadObjectItems(buf, n.pos, n.v, VObj(<<>>, <<>>))

readDescriptor(buf, pos) == readDescriptorBody(buf, pos)

\* Descriptor keys and units, as character codes.
KeyBrsh == <<66, 114, 115, 104>>   \* "Brsh"
KeySpcn == <<83, 112, 99, 110>>   \* "Spcn"
KeyAngl == <<65, 110, 103, 108>>   \* "Angl"
KeyRndn == <<82, 110, 100, 110>>   \* "Rndn"
KeyFlipX == <<102, 108, 105, 112, 88>>   \* "flipX"
KeyFlipY == <<102, 108, 105, 112, 89>>   \* "flipY"
KeyHrdn == <<72, 114, 100, 110>>   \* "Hrdn"
KeyUseTipDynamics == <<117, 115, 101, 84, 105, 112, 68, 121, 110, 97, 109, 105, 99, 115>>   \* "useTipDynamics"
KeySzVr == <<115, 122, 86, 114>>   \* "szVr"
KeyMinimumDiameter == <<109, 105, 110, 105, 109, 117, 109, 68, 105, 97, 109, 101, 116, 101, 114>>   \* "minimumDiameter"
KeyAngleDynamics == <<97, 110, 103, 108, 101, 68, 121, 110, 97, 109, 105, 99, 115>>   \* "angleDynamics"
KeyRoundnessDynamics == <<114, 111, 117, 110, 100, 110, 101, 115, 115, 68, 121, 110, 97, 109, 105, 99, 115>>   \* "roundnessDynamics"
KeyUseScatter == <<117, 115, 101, 83, 99, 97, 116, 116, 101, 114>>   \* "useScatter"
KeyScatterDynamics == <<115, 99, 97, 116, 116, 101, 114, 68, 121, 110, 97, 109, 105, 99, 115>>   \* "scatterDynamics"
KeyCnt == <<67, 110, 116, 32>>   \* "Cnt "
KeyBothAxes == <<98, 111, 116, 104, 65, 120, 101, 115>>   \* "bothAxes"
KeyUsePaintDynamics == <<117, 115, 101, 80, 97, 105, 110, 116, 68, 121, 110, 97, 109, 105, 99, 115>>   \* "usePaintDynamics"
KeyOpVr == <<111, 112, 86, 114>>   \* "opVr"
KeyPrVr == <<112, 114, 86, 114>>   \* "prVr"
KeyToolOptions == <<116, 111, 111, 108, 79, 112, 116, 105, 111, 110, 115>>   \* "toolOptions"
KeyUsePressureOverridesSize == <<117, 115, 101, 80, 114, 101, 115, 115, 117, 114, 101, 79, 118, 101, 114, 114, 105, 100, 101, 115, 83, 105, 122, 101>>   \* "usePressureOverridesSize"
KeyUsePressureOverridesOpacity == <<117, 115, 101, 80, 114, 101, 115, 115, 117, 114, 101, 79, 118, 101, 114, 114, 105, 100, 101, 115, 79, 112, 97, 99, 105, 116, 121>>   \* "usePressureOverridesOpacity"
KeyBVTy == <<98, 86, 84, 121>>   \* "bVTy"
KeyJitter == <<106, 105, 116, 116, 101, 114>>   \* "jitter"
KeyMnm == <<77, 110, 109, 32>>   \* "Mnm "
KeyFStp == <<102, 83, 116, 112>>   \* "fStp"
KeySampledData == <<115, 97, 109, 112, 108, 101, 100, 68, 97, 116, 97>>   \* "sampledData"
KeyNm == <<78, 109, 32, 32>>   \* "Nm  "
UnitPrc == <<35, 80, 114, 99>>   \* "#Prc"
UnitAng == <<35, 65, 110, 103>>   \* "#Ang"

(***************************************************************************)
(* The dynamics normalizer.                                                *)
(***************************************************************************)

\* untfValue(v): a unit-valued double by its unit, a number as it is, 0 for
\* anything else.  (Objects with both a "unit" and a "value" key are taken by
\* the code for unit-valued doubles too; no input here has such keys.)
untfValue(v) ==
  IF v.t = "untf" THEN
    IF v.n.den = 0 THEN v.n
    ELSE IF v.s = UnitPrc THEN Q(v.n.num, v.n.den * 100)
    ELSE IF v.s = UnitAng THEN [v.n EXCEPT !.rad = TRUE]
    ELSE v.n
  ELSE IF v.t = "num" THEN v.n
  ELSE Zero

\* x || d on numbers: d when x is 0 or NaN.
OrElse(x, d) == IF IsZero(x) THEN d ELSE x

\* x ?? d
Coalesce(x, d) == IF x.t \in {"undef", "null"} THEN d ELSE x

defaultController == [control |-> "off", jitter |-> Zero, minimum |-> Zero,
                      fadeSteps |-> VNum(Zero)]

PressureController(min) == [control |-> "pressure", jitter |-> Zero, minimum |-> min,
                            fadeSteps |-> VNum(Zero)]

defaultDynamics ==
  [size |-> PressureController(Q(1, 10)),
   angle |-> defaultController,
   roundness |-> defaultController,
   scatterEnabled |-> FALSE,
   scatter |-> defaultController,
   scatterCount |-> VNum(Q(1, 1)),
   scatterBothAxes |-> FALSE,
   opacity |-> PressureController(Zero),
   flow |-> defaultController,
   spacing |-> Q(15, 100),
   tipAngle |-> Zero,
   tipRoundness |-> Q(1, 1),
   flipX |-> FALSE,
   flipY |-> FALSE,
   hardness |-> Q(1, 1),
   defined |-> TRUE]

\* BVTY_MAP[obj.bVTy] ?? "off".  The property key of a number is its decimal
\* text, so the one-digit string reads the map as the number does.
BvtyControl(v) ==
  LET code == IF v.t = "num" /\ v.n.den = 1 /\ ~v.n.rad THEN v.n.num
              ELSE IF v.t = "str" /\ Len(v.s) = 1 THEN v.s[1] - 48
              ELSE 0 - 1
  IN CASE code = 0 -> "off"
       [] code = 1 -> "fade"
       [] code = 2 -> "pressure"
       [] code = 3 -> "tilt"
       [] code \in {5, 6} -> "direction"
       [] OTHER -> "off"

parseBrVr(obj) ==
  IF ~Truthy(obj) THEN defaultController
  ELSE [control |-> BvtyControl(Prop(obj, KeyBVTy)),
        jitter |-> untfValue(Prop(obj, KeyJitter)),
        minimum |-> untfValue(Prop(obj, KeyMnm)),
        fadeSteps |-> Coalesce(Prop(obj, KeyFStp), VNum(Zero))]

\* The tip-shape fields, from preset.Brsh when it is truthy.
TipShape(dyn, brsh) ==
  IF ~Truthy(brsh) THEN dyn
  ELSE [dyn EXCEPT !.spacing = OrElse(untfValue(Prop(brsh, KeySpcn)), Q(1, 4)),
                   !.tipAngle = untfValue(Prop(brsh, KeyAngl)),
                   !.tipRoundness = OrElse(untfValue(Prop(brsh, KeyRndn)), Q(1, 1)),
                   !.flipX = Truthy(Prop(brsh, KeyFlipX)),
                   !.flipY = Truthy(Prop(brsh, KeyFlipY)),
                   !.hardness = OrElse(untfValue(Prop(brsh, KeyHrdn)), Q(1, 1))]

\* Shape dynamics, when preset.useTipDynamics is truthy.
ShapeDynamics(dyn, preset) ==
  IF ~Truthy(Prop(preset, KeyUseTipDynamics)) THEN dyn
  ELSE LET size == parseBrVr(Prop(preset, KeySzVr))
           minDiam == untfValue(Prop(preset, KeyMinimumDiameter))
       IN [dyn EXCEPT !.size = IF IsPositive(minDiam) /\ size.control # "off"
                                THEN [size EXCEPT !.minimum = minDiam] ELSE size,
                      !.angle = parseBrVr(Prop(preset, KeyAngleDynamics)),
                      !.roundness = parseBrVr(Prop(preset, KeyRoundnessDynamics))]

\* Scatter: the flag always, the rest when it is set.
ScatterDynamics(dyn, preset) ==
  IF ~Truthy(Prop(preset, KeyUseScatter)) THEN [dyn EXCEPT !.scatterEnabled = FALSE]
  ELSE [dyn EXCEPT !.scatterEnabled = TRUE,
                   !.scatter = parseBrVr(Prop(preset, KeyScatterDynamics)),
                   !.scatterCount = Coalesce(Prop(preset, KeyCnt), VNum(Q(1, 1))),
                   !.scatterBothAxes = Truthy(Prop(preset, KeyBothAxes))]

\* Transfer dynamics, when preset.usePaintDynamics is truthy.
PaintDynamics(dyn, preset) ==
  IF ~Truthy(Prop(preset, KeyUsePaintDynamics)) THEN dyn
  ELSE [dyn EXCEPT !.opacity = parseBrVr(Prop(preset, KeyOpVr)),
                   !.flow = parseBrVr(Prop(preset, KeyPrVr))]

\* The tool-option overrides on whatever the controller is.
ToolOptionsAlways(dyn, preset) ==
  LET opts == Prop(preset, KeyToolOptions) IN
  IF ~Truthy(opts) THEN dyn
  ELSE LET d1 == IF Truthy(Prop(opts, KeyUsePressureOverridesSize))
                 THEN [dyn EXCEPT !.size = PressureController(Q(1, 10))] ELSE dyn
       IN IF Truthy(Prop(opts, KeyUsePressureOverridesOpacity))
          THEN [d1 EXCEPT !.opacity = PressureController(Zero)] ELSE d1

\* The tool-option overrides, each only on a controller that is off.
ToolOptions(dyn, preset) ==
  LET opts == Prop(preset, KeyToolOptions) IN
  IF ~Truthy(opts) THEN dyn
  ELSE LET d1 == IF Truthy(Prop(opts, KeyUsePressureOverridesSize)) /\ dyn.size.control = "off"
                 THEN [dyn EXCEPT !.size = PressureController(Q(1, 10))] ELSE dyn
       IN IF Truthy(Prop(opts, KeyUsePressureOverridesOpacity)) /\ d1.opacity.control = "off"
          THEN [d1 EXCEPT !.opacity = PressureController(Zero)] ELSE d1

\* descriptorToDynamics(preset) up to the tool options.
BeforeToolOptions(preset) ==
  PaintDynamics(
    ScatterDynamics(
      ShapeDynamics(
        TipShape(defaultDynamics, Prop(preset, KeyBrsh)),
        preset),
      preset),
    preset)

\* descriptorToDynamics(preset), for a preset that is not null or undefined.
descriptorToDynamics(preset) == ToolOptions(BeforeToolOptions(preset), preset)

(***************************************************************************)
(* parseAbr: the brush-pack decoder.                                       *)
(***************************************************************************)

\* brush.dynamics of a brush the merge step has not touched (undefined).
NoDynamics == [defined |-> FALSE]

RECURSIVE Digits(_)
Digits(n) == IF n < 10 THEN <<48 + n>> ELSE Digits(n \div 10) \o <<48 + (n % 10)>>

\* `Brush ${n}`
BrushName(n) == <<66, 114, 117, 115, 104, 32>> \o Digits(n)

\* The guard without its lower bounds.
BoxOkLax(width, height) == width <= 5000 /\ height <= 5000

\* The corruption guard on a decoded bounding box.
BoxOk(width, height) == width > 0 /\ height > 0 /\ width <= 5000 /\ height <= 5000

\* top, left, bottom, right as four readInt32.
ReadBox(buf, pos) ==
  LET t == readInt32(buf, pos)
      l == readInt32(buf, pos + 4)
      b == readInt32(buf, pos + 8)
      r == readInt32(buf, pos + 12)
  IN IF ~t.ok THEN [ok |-> FALSE, width |-> 0, height |-> 0, pos |-> pos]
     ELSE IF ~l.ok THEN [ok |-> FALSE, width |-> 0, height |-> 0, pos |-> pos + 4]
     ELSE IF ~b.ok THEN [ok |-> FALSE, width |-> 0, height |-> 0, pos |-> pos + 8]
     ELSE IF ~r.ok THEN [ok |-> FALSE, width |-> 0, height |-> 0, pos |-> pos + 12]
     ELSE [ok |-> TRUE, width |-> r.v - l.v, height |-> b.v - t.v, pos |-> pos + 16]

\* depth, compression flag, then the alpha mask by raw copy or RLE.
\* anyDepth: the caller accepts every depth (legacy); otherwise a depth other
\* than 8 and 16 ends the entry without a brush.
MaskResult(m) == [ok |-> m.ok, pushed |-> m.ok, pixels |-> m.pixels, pos |-> m.pos]

ReadMask(buf, pos, width, height, anyDepth) ==
  LET d == readUint16(buf, pos)
      c == readUint8(buf, pos + 2)
  IN IF ~d.ok THEN [ok |-> FALSE, pushed |-> FALSE, pixels |-> <<>>, pos |-> pos]
     ELSE IF ~c.ok THEN [ok |-> FALSE, pushed |-> FALSE, pixels |-> <<>>, pos |-> pos + 2]
     ELSE IF ~(anyDepth \/ d.v = 8 \/ d.v = 16)
       THEN [ok |-> TRUE, pushed |-> FALSE, pixels |-> <<>>, pos |-> pos + 3]
     ELSE MaskResult(IF c.v = 0 THEN readRawPixels(buf, pos + 3, width, height, d.v)
                     ELSE readRlePixels(buf, pos + 3, width, height, d.v))

NoBrush == [name |-> <<>>, brushId |-> <<>>, width |-> 0, height |-> 0, pixels |-> <<>>,
            spacing |-> Zero, diameter |-> 0, dynamics |-> NoDynamics]

\* brushes.push({...}) once the mask m is read.
BrushResult(m, name, brushId, width, height, spacing) ==
  [ok |-> m.ok, pushed |-> m.pushed, pos |-> m.pos,
   brush |-> [name |-> name, brushId |-> brushId, width |-> width, height |-> height,
              pixels |-> m.pixels, spacing |-> spacing, diameter |-> Max(width, height),
              dynamics |-> NoDynamics]]

\* The try block of one legacy entry, the reader at the start of its data.
\* ok = FALSE: an exception was caught; pushed: a brush was appended;
\* pos: the cursor when the block was left.
TryLegacyEntry(buf, pos, i) ==
  LET s == readUint16(buf, pos + 4)
      box == ReadBox(buf, pos + 6)
  IN IF ~s.ok THEN [ok |-> FALSE, pushed |-> FALSE, brush |-> NoBrush, pos |-> pos + 4]
     ELSE IF ~box.ok THEN [ok |-> FALSE, pushed |-> FALSE, brush |-> NoBrush, pos |-> box.pos]
     ELSE IF ~BoxOk(box.width, box.height)
       THEN [ok |-> TRUE, pushed |-> FALSE, brush |-> NoBrush, pos |-> box.pos]
     ELSE BrushResult(ReadMask(buf, box.pos, box.width, box.height, TRUE),
                      BrushName(i + 1), <<>>, box.width, box.height, Q(s.v, 100))

V62_OVERHEAD == 264

\* The try block of one sample of the samp block.
TryV6Sample(buf, dataStart, dataEnd, idx) ==
  LET n == readUint8(buf, dataStart)
      id == readBytes(buf, dataStart + 1, n.v)
  IN IF ~n.ok THEN [ok |-> FALSE, pushed |-> FALSE, brush |-> NoBrush, pos |-> dataStart]
     ELSE IF ~id.ok THEN [ok |-> FALSE, pushed |-> FALSE, brush |-> NoBrush, pos |-> dataStart + 1]
     ELSE IF dataEnd - id.pos < V62_OVERHEAD + 19
       THEN [ok |-> TRUE, pushed |-> FALSE, brush |-> NoBrush, pos |-> id.pos]
     ELSE LET box == ReadBox(buf, id.pos + V62_OVERHEAD) IN
       IF ~box.ok THEN [ok |-> FALSE, pushed |-> FALSE, brush |-> NoBrush, pos |-> box.pos]
       ELSE IF ~BoxOk(box.width, box.height)
         THEN [ok |-> TRUE, pushed |-> FALSE, brush |-> NoBrush, pos |-> box.pos]
       ELSE BrushResult(ReadMask(buf, box.pos, box.width, box.height, FALSE),
                        BrushName(idx + 1), id.v, box.width, box.height, Q(1, 4))

\* The check for the version field alone.
HeaderTooSmallLax(buf) == remaining(buf, 0) < 2

\* if (reader.remaining < 4) throw
HeaderTooSmall(buf) == remaining(buf, 0) < 4

\* The cursor after an entry, taken from what the entry consumed.
SeekConsumed(endPos, consumed) == consumed

\* reader.seek(endPos) after an entry: the declared end, whatever was consumed.
SeekEntryEnd(endPos, consumed) == endPos

\* The dispatch with version 11 taken for a resource-block file.
RouteWide(v) ==
  IF v = 1 \/ v = 2 THEN "legacy"
  ELSE IF v >= 6 /\ v <= 11 THEN "v6"
  ELSE "unsupported"

\* The dispatch on the version field.
Route(v) ==
  IF v = 1 \/ v = 2 THEN "legacy"
  ELSE IF v >= 6 /\ v <= 10 THEN "v6"
  ELSE "unsupported"

(***************************************************************************)
(* mergeDescriptorDynamics.                                                *)
(***************************************************************************)

\* String.prototype.trim's white space.
WhiteSpace == {9, 10, 11, 12, 13, 32, 160, 5760, 8232, 8233, 8239, 8287, 12288, 65279}
                \cup (8192..8202)

\* s.replace(/\0/g, "")
StripNulls(s) == SelectSeq(s, LAMBDA c : c # 0)

RECURSIVE TrimLeft(_)
TrimLeft(s) == IF s # <<>> /\ Head(s) \in WhiteSpace THEN TrimLeft(Tail(s)) ELSE s

RECURSIVE TrimRight(_)
TrimRight(s) ==
  IF s # <<>> /\ s[Len(s)] \in WhiteSpace THEN TrimRight(SubSeq(s, 1, Len(s) - 1)) ELSE s

\* s.trim()
Trim(s) == TrimRight(TrimLeft(s))

\* uuid.replace(/\0/g, "").trim()
CleanUuid(s) == Trim(StripNulls(s))

\* uuidMap.get(id): the map is filled in index order, every brush with a
\* non-empty brushId overwriting an earlier one with the same brushId; 0 is
\* undefined.
UuidIndex(brs, id) ==
  LET hits == {i \in 1..Len(brs) : brs[i].brushId # <<>> /\ brs[i].brushId = id}
  IN IF hits = {} THEN 0 ELSE CHOOSE i \in hits : \A j \in hits : j <= i

\* A preset that changes every brush, matched or not.
MergePresetAll(brs, preset) ==
  [ok |-> TRUE,
   brushes |-> [i \in 1..Len(brs) |->
                  [brs[i] EXCEPT !.dynamics = descriptorToDynamics(preset)]]]

\* One iteration of the loop over descPresets.  ok = FALSE: a TypeError
\* left the loop (and mergeDescriptorDynamics, and parseAbr).
MergePreset(brs, preset) ==
  IF PropThrows(preset) THEN [ok |-> FALSE, brushes |-> brs]
  ELSE
    LET brsh == Prop(preset, KeyBrsh)
        uuid == Prop(brsh, KeySampledData)
    IN
    IF ~Truthy(brsh) \/ ~Truthy(uuid) THEN [ok |-> TRUE, brushes |-> brs]
    ELSE IF uuid.t # "str" THEN [ok |-> FALSE, brushes |-> brs]
    ELSE
      LET idx == UuidIndex(brs, CleanUuid(uuid.s))
          name == Prop(preset, KeyNm)
          descSpacing == untfValue(Prop(brsh, KeySpcn))
      IN
      IF idx = 0 THEN [ok |-> TRUE, brushes |-> brs]
      ELSE IF Truthy(name) /\ name.t # "str" THEN [ok |-> FALSE, brushes |-> brs]
      ELSE [ok |-> TRUE,
            brushes |->
              [brs EXCEPT ![idx] =
                 [@ EXCEPT !.name = IF Truthy(name) THEN StripNulls(name.s) ELSE @,
                           !.dynamics = descriptorToDynamics(preset),
                           !.spacing = IF IsPositive(descSpacing) THEN descSpacing ELSE @]]]

(***************************************************************************)
(* parseAbr as a sequence of steps: the header and the dispatch, then one  *)
(* step per iteration of each loop of the decoder it was routed to.        *)
(***************************************************************************)

Sig8BIM == <<56, 66, 73, 77>>
KeySamp == <<115, 97, 109, 112>>
KeyDesc == <<100, 101, 115, 99>>

inputVars == <<file, buffer>>
legacyVars == <<count, entryIdx>>
v6Vars == <<blocks, blockIdx, blockEnd, brushIdx, descPresets, mergeIdx>>
otherVars == <<rleVars, strokeVars, sideVars>>

\* parseAbr on a buffer too small for a header: the error, nothing read.
ParseAbrTooSmall ==
  /\ pc = "start"
  /\ HeaderTooSmall(buffer)
  /\ pc' = "failed"
  /\ error' = "too_small"
  /\ UNCHANGED <<inputVars, offset, version, route, brushes, legacyVars, v6Vars, entryLog, otherVars>>

\* parseAbr: the version is read and selects the decoder; the prologue of
\* the selected decoder (the brush count; the sub-version skip) follows.
ParseAbrDispatch ==
  /\ pc = "start"
  /\ ~HeaderTooSmall(buffer)
  /\ LET v == readUint16(buffer, 0)
         r == IF v.ok THEN Route(v.v) ELSE "range"
         n == readUint16(buffer, 2)
     IN /\ version' = IF v.ok THEN v.v ELSE version
        /\ CASE r = "legacy" /\ n.ok ->
                  /\ route' = "legacy" /\ pc' = "v1v2" /\ error' = error
                  /\ count' = n.v /\ offset' = 4
             [] r = "v6" ->
                  /\ route' = "v6" /\ pc' = "v6scan" /\ error' = error
                  /\ count' = count /\ offset' = 4
             [] r = "unsupported" ->
                  /\ route' = route /\ pc' = "failed" /\ error' = "unsupported"
                  /\ count' = count /\ offset' = 2
             [] OTHER ->
                  /\ route' = IF r = "legacy" THEN "legacy" ELSE route
                  /\ pc' = "failed" /\ error' = "range"
                  /\ count' = count /\ offset' = IF v.ok THEN 2 ELSE 0
  /\ UNCHANGED <<inputVars, brushes, entryIdx, v6Vars, entryLog, otherVars>>

\* parseAbrV1V2: one iteration of the loop over the declared count.
LegacyMore == entryIdx < count /\ remaining(buffer, offset) >= 6

V1V2Entry ==
  /\ pc = "v1v2"
  /\ LegacyMore
  /\ \E type \in {readUint16(buffer, offset).v}, brushSize \in {readUint32(buffer, offset + 2).v} :
     \E r \in {IF type = 2 /\ brushSize > 0
               THEN TryLegacyEntry(buffer, offset + 6, entryIdx)
               ELSE [ok |-> TRUE, pushed |-> FALSE, brush |-> NoBrush, pos |-> offset + 6]} :
     LET dataStart == offset + 6
         endPos == dataStart + brushSize
     IN /\ brushes' = IF r.pushed THEN Append(brushes, r.brush) ELSE brushes
        /\ offset' = SeekEntryEnd(endPos, r.pos)
        /\ entryLog' = Append(entryLog, [at |-> offset, dataStart |-> dataStart,
                                         declared |-> brushSize, consumed |-> r.pos,
                                         threw |-> ~r.ok, pushed |-> r.pushed,
                                         brush |-> r.brush,
                                         after |-> SeekEntryEnd(endPos, r.pos)])
  /\ entryIdx' = entryIdx + 1
  /\ UNCHANGED <<inputVars, pc, version, route, error, count, v6Vars, otherVars>>

V1V2Done ==
  /\ pc = "v1v2"
  /\ ~LegacyMore
  /\ pc' = "done"
  /\ UNCHANGED <<inputVars, offset, version, route, error, brushes, legacyVars, v6Vars, entryLog, otherVars>>

\* parseAbrV6Plus: one iteration of the scan for 8BIM blocks.
ScanMore ==
  /\ remaining(buffer, offset) >= 12
  /\ readSignature(buffer, offset).v = Sig8BIM

V6ScanBlock ==
  /\ pc = "v6scan"
  /\ ScanMore
  /\ LET key == readSignature(buffer, offset + 4).v
         blockSize == readUint32(buffer, offset + 8).v
     IN /\ blocks' = Append(blocks, [key |-> key, start |-> offset + 12, size |-> blockSize])
        /\ offset' = offset + 12 + blockSize
  /\ UNCHANGED <<inputVars, pc, version, route, error, brushes, legacyVars,
                 blockIdx, blockEnd, brushIdx, descPresets, mergeIdx, entryLog, otherVars>>

V6ScanEnd ==
  /\ pc = "v6scan"
  /\ ~ScanMore
  /\ offset' = IF remaining(buffer, offset) >= 12 THEN offset + 4 ELSE offset
  /\ pc' = "v6samp"
  /\ blockIdx' = 1
  /\ UNCHANGED <<inputVars, version, route, error, brushes, legacyVars,
                 blocks, blockEnd, brushIdx, descPresets, mergeIdx, entryLog, otherVars>>

IsSampBlock(b) == b.key = KeySamp /\ b.size > 8
IsDescBlock(b) == b.key = KeyDesc /\ b.size > 8

\* The loop over the recorded blocks: a block that is not a samp block.
V6SampSkipBlock ==
  /\ pc = "v6samp"
  /\ blockIdx <= Len(blocks)
  /\ ~IsSampBlock(blocks[blockIdx])
  /\ blockIdx' = blockIdx + 1
  /\ UNCHANGED <<inputVars, offset, pc, version, route, error, brushes, legacyVars,
                 blocks, blockEnd, brushIdx, descPresets, mergeIdx, entryLog, otherVars>>

\* A samp block: seek to its start.
V6SampEnter ==
  /\ pc = "v6samp"
  /\ blockIdx <= Len(blocks)
  /\ IsSampBlock(blocks[blockIdx])
  /\ offset' = blocks[blockIdx].start
  /\ blockEnd' = blocks[blockIdx].start + blocks[blockIdx].size
  /\ brushIdx' = 0
  /\ pc' = "v6entry"
  /\ UNCHANGED <<inputVars, version, route, error, brushes, legacyVars,
                 blocks, blockIdx, descPresets, mergeIdx, entryLog, otherVars>>

\* while (reader.position < blockEnd - 4): the sample length cannot be read.
\* The read is outside the try block, so the RangeError leaves parseAbr.
V6SampleThrow ==
  /\ pc = "v6entry"
  /\ offset < blockEnd - 4
  /\ ~readUint32(buffer, offset).ok
  /\ pc' = "failed"
  /\ error' = "range"
  /\ UNCHANGED <<inputVars, offset, version, route, brushes, legacyVars, v6Vars, entryLog, otherVars>>

\* The sample length is 0 or leaves the block: break.
V6SampleBreak ==
  /\ pc = "v6entry"
  /\ offset < blockEnd - 4
  /\ LET n == readUint32(buffer, offset) IN
       /\ n.ok
       /\ n.v < 1 \/ n.pos + n.v > blockEnd
       /\ offset' = n.pos
  /\ pc' = "v6samp"
  /\ blockIdx' = blockIdx + 1
  /\ UNCHANGED <<inputVars, version, route, error, brushes, legacyVars,
                 blocks, blockEnd, brushIdx, descPresets, mergeIdx, entryLog, otherVars>>

\* No alignment padding after a sample.
AlignPaddingNone(sampleLen) == 0

\* The alignment padding skipped after a sample of the declared length.
AlignPadding(sampleLen) == (4 - (sampleLen % 4)) % 4

\* One sample: the try block, then the seek to the declared end and the
\* alignment padding.
V6Sample ==
  /\ pc = "v6entry"
  /\ offset < blockEnd - 4
  /\ \E n \in {readUint32(buffer, offset)} :
     \E r \in {TryV6Sample(buffer, n.pos, n.pos + n.v, brushIdx)} :
     LET dataStart == n.pos
         dataEnd == dataStart + n.v
         padding == AlignPadding(n.v)
     IN /\ n.ok
        /\ ~(n.v < 1 \/ dataEnd > blockEnd)
        /\ brushes' = IF r.pushed THEN Append(brushes, r.brush) ELSE brushes
        /\ offset' = SeekEntryEnd(dataEnd, r.pos) + padding
        /\ entryLog' = Append(entryLog, [at |-> offset, dataStart |-> dataStart,
                                         declared |-> n.v, consumed |-> r.pos,
                                         threw |-> ~r.ok, pushed |-> r.pushed,
                                         brush |-> r.brush,
                                         after |-> SeekEntryEnd(dataEnd, r.pos) + padding])
  /\ brushIdx' = brushIdx + 1
  /\ UNCHANGED <<inputVars, pc, version, route, error, legacyVars,
                 blocks, blockIdx, blockEnd, descPresets, mergeIdx, otherVars>>

V6SampExit ==
  /\ pc = "v6entry"
  /\ ~(offset < blockEnd - 4)
  /\ pc' = "v6samp"
  /\ blockIdx' = blockIdx + 1
  /\ UNCHANGED <<inputVars, offset, version, route, error, brushes, legacyVars,
                 blocks, blockEnd, brushIdx, descPresets, mergeIdx, entryLog, otherVars>>

\* The first desc block of the recorded blocks, 0 if there is none.
FirstDescBlock(bs) ==
  LET hits == {i \in 1..Len(bs) : IsDescBlock(bs[i])}
  IN IF hits = {} THEN 0 ELSE CHOOSE i \in hits : \A j \in hits : i <= j

\* The presets of a desc block, d the outcome of readDescriptor: desc.Brsh
\* when the descriptor decodes and desc.Brsh is an array, none otherwise.
DescPresetsOf(d) ==
  IF d.ok /\ Prop(d.v, KeyBrsh).t = "list" THEN Prop(d.v, KeyBrsh).items ELSE <<>>

\* The loop over the blocks for the desc block, and the return to parseAbr,
\* which merges when there is a preset.
V6Desc ==
  /\ pc = "v6samp"
  /\ blockIdx > Len(blocks)
  /\ \E i \in {FirstDescBlock(blocks)} :
     \E d \in {IF i = 0 THEN Threw(offset) ELSE readDescriptor(buffer, blocks[i].start + 4)} :
       /\ descPresets' = DescPresetsOf(d)
       /\ offset' = d.pos
       /\ pc' = IF Len(DescPresetsOf(d)) > 0 THEN "merge" ELSE "done"
  /\ mergeIdx' = 1
  /\ UNCHANGED <<inputVars, version, route, error, brushes, legacyVars,
                 blocks, blockIdx, blockEnd, brushIdx, entryLog, otherVars>>

\* mergeDescriptorDynamics: one preset.
\* The loop over descPresets staying on the same preset.
NextPresetSame(i) == i

\* for (const preset of descPresets): the index of the preset after preset i
NextPreset(i) == i + 1

MergeStep ==
  /\ pc = "merge"
  /\ mergeIdx <= Len(descPresets)
  /\ \E r \in {MergePreset(brushes, descPresets[mergeIdx])} :
       /\ brushes' = r.brushes
       /\ pc' = IF r.ok THEN "merge" ELSE "failed"
       /\ error' = IF r.ok THEN error ELSE "type"
  /\ mergeIdx' = NextPreset(mergeIdx)
  /\ UNCHANGED <<inputVars, offset, version, route, legacyVars,
                 blocks, blockIdx, blockEnd, brushIdx, descPresets, entryLog, otherVars>>

MergeDone ==
  /\ pc = "merge"
  /\ mergeIdx > Len(descPresets)
  /\ pc' = "done"
  /\ UNCHANGED <<inputVars, offset, version, route, error, brushes, legacyVars, v6Vars, entryLog, otherVars>>

(***************************************************************************)
(* The run-length decoder on PackBits-encoded channels.                    *)
(*                                                                         *)
(* The source channel rleSrc (width x height samples) is encoded scanline  *)
(* by scanline into literal runs, repeat runs and no-op bytes, the choice  *)
(* of runs being free; the stream is the per-scanline byte counts followed *)
(* by the runs.  The stream may then lose its tail before it is decoded.   *)
(***************************************************************************)

MaxRlePixels == 4          \* width * height of an encoded channel
MaxRleNoops == 1           \* no-op (0x80) bytes an encoder may emit
RlePixelValues == {7, 200}

\* The low byte written after each sample at 16-bit depth; the decoder drops it.
RleLowByte(v) == (v + 90) % 256

RleSampleBytes(v, depth) == IF depth = 16 THEN <<v, RleLowByte(v)>> ELSE <<v>>

RECURSIVE RleSamplesBytes(_, _)
RleSamplesBytes(vs, depth) ==
  IF vs = <<>> THEN <<>>
  ELSE RleSampleBytes(Head(vs), depth) \o RleSamplesBytes(Tail(vs), depth)

U16Bytes(n) == <<n \div 256, n % 256>>

RECURSIVE RleHeaders(_)
RleHeaders(lens) ==
  IF lens = <<>> THEN <<>> ELSE U16Bytes(Head(lens)) \o RleHeaders(Tail(lens))

RleTotal == rleW * rleH
\* Samples left on the scanline being encoded.
RleLineLeft == rleW - (rleDone % rleW)

RleEmit(bytes, k) ==
  LET line == (rleDone \div rleW) + 1 IN
  /\ rleBody' = rleBody \o bytes
  /\ rleLens' = [rleLens EXCEPT ![line] = @ + Len(bytes)]
  /\ rleDone' = rleDone + k

RleInit ==
  /\ rlePc = "encode"
  /\ \E w \in 1..MaxRlePixels, h \in 1..MaxRlePixels :
       /\ w * h <= MaxRlePixels
       /\ rleW = w
       /\ rleH = h
       /\ rleSrc \in [1..(w * h) -> RlePixelValues]
       /\ rleLens = [y \in 1..h |-> 0]
  /\ rleDepth \in {8, 16}
  /\ rleBody = <<>>
  /\ rleStream = <<>>
  /\ rleDone = 0
  /\ rleNoops = 0
  /\ rleCut = FALSE
  /\ rleOut = [ok |-> TRUE, pixels |-> <<>>, pos |-> 0]

\* A literal run of k samples: control byte k-1, then the samples.
RleEncodeLiteral ==
  /\ rlePc = "encode"
  /\ rleDone < RleTotal
  /\ \E k \in 1..Min(128, RleLineLeft) :
       RleEmit(<<k - 1>> \o RleSamplesBytes(SubSeq(rleSrc, rleDone + 1, rleDone + k), rleDepth), k)
  /\ UNCHANGED <<abrVars, strokeVars, sideVars, rlePc, rleW, rleH, rleDepth, rleSrc, rleStream, rleNoops, rleCut, rleOut>>

\* A repeat run of k equal samples: control byte 1-k (as a byte, 257-k), then the sample once.
RleEncodeRepeat ==
  /\ rlePc = "encode"
  /\ rleDone < RleTotal
  /\ \E k \in 2..Min(128, RleLineLeft) :
       /\ \A j \in 1..k : rleSrc[rleDone + j] = rleSrc[rleDone + 1]
       /\ RleEmit(<<257 - k>> \o RleSampleBytes(rleSrc[rleDone + 1], rleDepth), k)
  /\ UNCHANGED <<abrVars, strokeVars, sideVars, rlePc, rleW, rleH, rleDepth, rleSrc, rleStream, rleNoops, rleCut, rleOut>>

\* The no-op control byte -128.
RleEncodeNoop ==
  /\ rlePc = "encode"
  /\ rleDone < RleTotal
  /\ rleNoops < MaxRleNoops
  /\ rleNoops' = rleNoops + 1
  /\ RleEmit(<<128>>, 0)
  /\ UNCHANGED <<abrVars, strokeVars, sideVars, rlePc, rleW, rleH, rleDepth, rleSrc, rleStream, rleCut, rleOut>>

RleFinish ==
  /\ rlePc = "encode"
  /\ rleDone = RleTotal
  /\ rleStream' = RleHeaders(rleLens) \o rleBody
  /\ rlePc' = "ready"
  /\ UNCHANGED <<abrVars, strokeVars, sideVars, rleW, rleH, rleDepth, rleSrc, rleBody, rleLens, rleDone, rleNoops, rleCut, rleOut>>

\* The input ends early: only the first n bytes of the stream reach the decoder.
RleTruncate ==
  /\ rlePc = "ready"
  /\ ~rleCut
  /\ \E n \in 0..(Len(rleStream) - 1) : rleStream' = SubSeq(rleStream, 1, n)
  /\ rleCut' = TRUE
  /\ UNCHANGED <<abrVars, strokeVars, sideVars, rlePc, rleW, rleH, rleDepth, rleSrc, rleBody, rleLens, rleDone, rleNoops, rleOut>>

RleDecode ==
  /\ rlePc = "ready"
  /\ rleOut' = readRlePixels(rleStream, 0, rleW, rleH, rleDepth)
  /\ rlePc' = "decoded"
  /\ UNCHANGED <<abrVars, strokeVars, sideVars, rleW, rleH, rleDepth, rleSrc, rleBody, rleLens, rleStream, rleDone, rleNoops, rleCut>>

\* Depths a channel may declare that the decoders do not support.
UnsupportedDepths == {1, 32}

\* A channel that declares an unsupported depth: its stream is PackBits over
\* bytes, as at depth 8.
RleDepthInit ==
  /\ rlePc = "encode"
  /\ \E w \in 1..MaxRlePixels, h \in 1..MaxRlePixels :
       /\ w * h <= MaxRlePixels
       /\ rleW = w
       /\ rleH = h
       /\ rleSrc \in [1..(w * h) -> RlePixelValues]
       /\ rleLens = [y \in 1..h |-> 0]
  /\ rleDepth \in UnsupportedDepths
  /\ rleBody = <<>>
  /\ rleStream = <<>>
  /\ rleDone = 0
  /\ rleNoops = 0
  /\ rleCut = FALSE
  /\ rleOut = [ok |-> TRUE, pixels |-> <<>>, pos |-> 0]

RleIdle ==
  /\ rlePc = "idle"
  /\ rleW = 0 /\ rleH = 0 /\ rleDepth = 8
  /\ rleSrc = <<>> /\ rleBody = <<>> /\ rleLens = <<>> /\ rleStream = <<>>
  /\ rleDone = 0 /\ rleNoops = 0 /\ rleCut = FALSE
  /\ rleOut = [ok |-> TRUE, pixels |-> <<>>, pos |-> 0]

(***************************************************************************)
(* BrushEngine: the stroke state machine.                                  *)
(*                                                                         *)
(* Lengths and coordinates are in hundredths of a pixel, the brush size is *)
(* in whole pixels and dynamics.spacing in whole percent, so that every    *)
(* quantity addPoint computes on the paths below is an integer and the     *)
(* arithmetic is exact.  A stamp is one call of placeStamp.                *)
(***************************************************************************)

\* Math.sqrt(dx*dx + dy*dy), on the segments used here: axis-parallel ones
\* and multiples of the (3,4,5) triangle.
SegmentDist(dx, dy) ==
  IF dy = 0 THEN Abs(dx)
  ELSE IF dx = 0 THEN Abs(dy)
  ELSE CHOOSE d \in 0..(Abs(dx) + Abs(dy)) : d * d = dx * dx + dy * dy

\* The unit vector (dx, dy) / dist, kept as a reduced fraction triple.
UnitVector(dx, dy, dist) ==
  LET g == Gcd(Gcd(Abs(dx), Abs(dy)), dist) IN <<dx \div g, dy \div g, dist \div g>>

\* Math.max(1, this._size * dynamics.spacing), in hundredths of a pixel.
SpacingPx(eng) == Max(100, eng.size * eng.spacing)

\* Math.max(1, Math.round(dynamics.scatterCount)): stamps per placement.
StampsPerPlacement(eng) == Max(1, eng.scatterCount)

\* One placement: count calls of placeStamp at lastPosition + t * (dx, dy),
\* t = traveled / segmentDist.
Placement(st, x, y, traveled, dist, cnt) ==
  [i \in 1..cnt |-> [op |-> "add", fromX |-> st.lastX, fromY |-> st.lastY,
                     toX |-> x, toY |-> y, num |-> traveled, den |-> dist]]

\* while (traveled + spacingPx <= segmentDist): the further placements.
RECURSIVE FurtherStamps(_, _, _, _, _, _, _)
FurtherStamps(st, x, y, traveled, spacingPx, dist, cnt) ==
  IF traveled + spacingPx <= dist
  THEN LET r == FurtherStamps(st, x, y, traveled + spacingPx, spacingPx, dist, cnt) IN
       [traveled |-> r.traveled,
        placed |-> Placement(st, x, y, traveled + spacingPx, dist, cnt) \o r.placed]
  ELSE [traveled |-> traveled, placed |-> <<>>]

\* The accumulator assigned instead of added to.
AccumulateAssign(accum, dist) == dist

\* this.stroke.distanceAccum += segmentDist
Accumulate(accum, dist) == accum + dist

\* A beginStroke that resets the stroke state and places nothing.
BeginStrokeSilent(x, y) ==
  [stroke |-> [lastX |-> x, lastY |-> y, dir |-> <<1, 0, 1>>,
               distanceAccum |-> 0, active |-> TRUE],
   placed |-> <<>>]

\* beginStroke: the new stroke state and the one stamp at the start point.
BeginStrokeResult(x, y) ==
  [stroke |-> [lastX |-> x, lastY |-> y, dir |-> <<1, 0, 1>>,
               distanceAccum |-> 0, active |-> TRUE],
   placed |-> <<[op |-> "begin", fromX |-> x, fromY |-> y, toX |-> x, toY |-> y,
                 num |-> 0, den |-> 1]>>]

\* The whole segment carried over.
LeftoverWhole(dist, traveled) == dist

\* this.stroke.distanceAccum = segmentDist - traveled
Leftover(dist, traveled) == dist - traveled

\* addPoint: the new stroke state and the stamps placed, in order.
AddPointResult(st, eng, x, y) ==
  IF ~st.active THEN [stroke |-> st, placed |-> <<>>]
  ELSE
    LET dx == x - st.lastX
        dy == y - st.lastY
        dist == SegmentDist(dx, dy)
    IN
    IF dist = 0 THEN [stroke |-> st, placed |-> <<>>]
    ELSE
      LET spacingPx == SpacingPx(eng)
          rest == spacingPx - st.distanceAccum
          cnt == StampsPerPlacement(eng)
          dir == UnitVector(dx, dy, dist)
      IN
      IF dist >= rest
      THEN LET more == FurtherStamps(st, x, y, rest, spacingPx, dist, cnt) IN
           [stroke |-> [lastX |-> x, lastY |-> y, dir |-> dir,
                        distanceAccum |-> Leftover(dist, more.traveled), active |-> TRUE],
            placed |-> Placement(st, x, y, rest, dist, cnt) \o more.placed]
      ELSE [stroke |-> [lastX |-> x, lastY |-> y, dir |-> dir,
                        distanceAccum |-> Accumulate(st.distanceAccum, dist),
                        active |-> TRUE],
            placed |-> <<>>]

\* An endStroke that only clears the accumulator.
EndStrokeStillActive(st) == [st EXCEPT !.distanceAccum = 0]

\* endStroke
EndStrokeResult(st) == [st EXCEPT !.active = FALSE, !.distanceAccum = 0]

\* The stroke state of a freshly constructed engine.
FreshStroke == [lastX |-> 0, lastY |-> 0, dir |-> <<1, 0, 1>>,
                distanceAccum |-> 0, active |-> FALSE]

(***************************************************************************)
(* Spacing: the same straight path fed once and fed in NSub pieces.        *)
(*                                                                         *)
(* path.step is the length of one piece (in hundredths of a pixel times    *)
(* the length of path.dir), so the path is NSub * step long.  The coarse   *)
(* stroke is beginStroke, one addPoint at the end of the path, endStroke;  *)
(* the fine stroke follows on the same engine with NSub addPoint calls.    *)
(***************************************************************************)

NSub == 100               \* pieces of the finely sampled path
MaxStep == 6              \* length of one piece
PathDirs == {<<1, 0, 1>>, <<0, 1, 1>>, <<3, 4, 5>>}
EngineSizes == {1, 8, 30}
EngineSpacings == {5, 15, 25, 100}
ScatterCounts == {0, 1, 3}

PathStart == <<1000, 500>>

PathLength == NSub * path.step * path.dir[3]
PathPointX(k) == PathStart[1] + k * path.step * path.dir[1]
PathPointY(k) == PathStart[2] + k * path.step * path.dir[2]

SpacingInit ==
  /\ strokePc = "coarse_begin"
  /\ engine \in [size : EngineSizes, spacing : EngineSpacings, scatterCount : ScatterCounts]
  /\ path \in [step : 1..MaxStep, dir : PathDirs]
  /\ stroke = FreshStroke
  /\ stamps = <<>>
  /\ fed = 0

SpacingBegin(from, to) ==
  /\ strokePc = from
  /\ LET r == BeginStrokeResult(PathStart[1], PathStart[2]) IN
       /\ stroke' = r.stroke
       /\ stamps' = stamps \o r.placed
  /\ strokePc' = to
  /\ fed' = 0
  /\ UNCHANGED <<engine, path, abrVars, rleVars, sideVars>>

CoarseBegin == SpacingBegin("coarse_begin", "coarse_add")
FineBegin == SpacingBegin("fine_begin", "fine_add")

\* The whole path in one call.
CoarseAdd ==
  /\ strokePc = "coarse_add"
  /\ LET r == AddPointResult(stroke, engine, PathPointX(NSub), PathPointY(NSub)) IN
       /\ stroke' = r.stroke
       /\ stamps' = stamps \o r.placed
  /\ strokePc' = "coarse_end"
  /\ fed' = 1
  /\ UNCHANGED <<engine, path, abrVars, rleVars, sideVars>>

\* The next of the NSub pieces.
FineAdd ==
  /\ strokePc = "fine_add"
  /\ fed < NSub
  /\ LET r == AddPointResult(stroke, engine, PathPointX(fed + 1), PathPointY(fed + 1)) IN
       /\ stroke' = r.stroke
       /\ stamps' = stamps \o r.placed
  /\ fed' = fed + 1
  /\ strokePc' = IF fed + 1 = NSub THEN "fine_end" ELSE "fine_add"
  /\ UNCHANGED <<engine, path, abrVars, rleVars, sideVars>>

SpacingEnd(from, to) ==
  /\ strokePc = from
  /\ stroke' = EndStrokeResult(stroke)
  /\ strokePc' = to
  /\ UNCHANGED <<engine, path, stamps, fed, abrVars, rleVars, sideVars>>

CoarseEnd == SpacingEnd("coarse_end", "fine_begin")
FineEnd == SpacingEnd("fine_end", "done")

(***************************************************************************)
(* BrushEngine driven by arbitrary calls: setPreset, setColor, beginStroke, *)
(* addPoint and endStroke in any order.  engine holds the fields the calls *)
(* read: _size, _color, the preset (its tip, dynamics.spacing and          *)
(* dynamics.scatterCount), tintedStamp and tintedColor.  tintedStamp is    *)
(* the canvas ensureTintedStamp painted: the color it was filled with and  *)
(* the tip it was masked with, or NullStamp.                               *)
(***************************************************************************)

MaxCalls == 4             \* calls made on one engine

NullStamp == [color |-> "", tip |-> ""]

\* A stamp cache that outlives the change of preset.
SetPresetKeepStamp(eng, preset) ==
  [eng EXCEPT !.tip = preset.tip, !.spacing = preset.spacing,
              !.scatterCount = preset.scatterCount]

\* setPreset
SetPresetResult(eng, preset) ==
  [eng EXCEPT !.tip = preset.tip, !.spacing = preset.spacing,
              !.scatterCount = preset.scatterCount, !.tintedStamp = NullStamp]

\* setColor
SetColorResult(eng, color) ==
  IF eng.color # color
  THEN [eng EXCEPT !.color = color, !.tintedStamp = NullStamp]
  ELSE eng

\* ensureTintedStamp: the cached canvas when there is one of the current
\* color, a newly painted one otherwise.
EnsureTintedStamp(eng) ==
  IF eng.tintedStamp # NullStamp /\ eng.tintedColor = eng.color
  THEN eng
  ELSE [eng EXCEPT !.tintedStamp = [color |-> eng.color, tip |-> eng.tip],
                   !.tintedColor = eng.color]

\* placeStamp, once per element of placed: each call starts with
\* ensureTintedStamp and works with the canvas it returns.
PlaceStamps(eng, placed) ==
  [engine |-> IF placed = <<>> THEN eng ELSE EnsureTintedStamp(eng),
   drawn |-> [i \in 1..Len(placed) |->
                [at |-> placed[i], image |-> EnsureTintedStamp(eng).tintedStamp]]]

EnginePoints == {<<0, 0>>, <<300, 0>>, <<0, 400>>}
EngineColors == {"#ffffff", "#ff0000"}
EnginePresets == {[tip |-> "round", spacing |-> 15, scatterCount |-> 1],
                  [tip |-> "chalk", spacing |-> 100, scatterCount |-> 3]}

\* new BrushEngine(preset)
NewEngine(preset) ==
  [size |-> 8, color |-> "#ffffff", tip |-> preset.tip, spacing |-> preset.spacing,
   scatterCount |-> preset.scatterCount, tintedStamp |-> NullStamp, tintedColor |-> ""]

EngineInit ==
  /\ strokePc = "engine"
  /\ engine \in {NewEngine(p) : p \in EnginePresets}
  /\ stroke = FreshStroke
  /\ stamps = <<>>
  /\ path = <<>>
  /\ fed = 0
  /\ calls = <<>>

\* The record of one call: what it was, the state it found and left, and
\* the stamps it drew.
Call(op, arg, eng, st, drawn) ==
  [op |-> op, arg |-> arg, engineBefore |-> engine, engineAfter |-> eng,
   before |-> stroke, after |-> st, drawn |-> drawn]

EngineStep(op, arg, eng, st, drawn) ==
  /\ strokePc = "engine"
  /\ fed < MaxCalls
  /\ engine' = eng
  /\ stroke' = st
  /\ stamps' = stamps \o drawn
  /\ calls' = Append(calls, Call(op, arg, eng, st, drawn))
  /\ fed' = fed + 1
  /\ UNCHANGED <<strokePc, path, abrVars, rleVars, normVars, descVars, readerVars, loadVars, orderVars, extraVars>>

EngineSetPreset ==
  \E p \in EnginePresets : EngineStep("setPreset", p, SetPresetResult(engine, p), stroke, <<>>)

EngineSetColor ==
  \E c \in EngineColors : EngineStep("setColor", c, SetColorResult(engine, c), stroke, <<>>)

EngineBeginStroke ==
  \E p \in EnginePoints :
    \E r \in {BeginStrokeResult(p[1], p[2])} :
      \E d \in {PlaceStamps(engine, r.placed)} :
        EngineStep("beginStroke", p, d.engine, r.stroke, d.drawn)

EngineAddPoint ==
  \E p \in EnginePoints :
    \E r \in {AddPointResult(stroke, engine, p[1], p[2])} :
      \E d \in {PlaceStamps(engine, r.placed)} :
        EngineStep("addPoint", p, d.engine, r.stroke, d.drawn)

EngineEndStroke ==
  EngineStep("endStroke", <<>>, engine, EndStrokeResult(stroke), <<>>)

\* loadAbrFile and handleImport: dynamics: r.dynamics ?? defaultDynamics()
ImportDynamics(raw) == IF raw.dynamics.defined THEN raw.dynamics ELSE defaultDynamics

(***************************************************************************)
(* Brush-pack files.  The input of parseAbr is built from a description,   *)
(* file, which stays in the state next to the bytes built from it:         *)
(*   family   "pack", "merge", "sweep", "cut" or "short"                   *)
(*   version  the version field                                            *)
(*   entries  the brush entries (legacy) or samples (resource blocks)      *)
(*   presets  the items of the descriptor's Brsh list, as values           *)
(*   order    the order of the resource blocks: "s" samp, "d" desc,        *)
(*            "x" a block of another key                                   *)
(*   cut      the number of leading bytes of the file that are present     *)
(*   bytes    the whole buffer, for the family "short"                     *)
(* An entry is described by                                                *)
(*   type     the legacy entry type (2 is a sampled brush)                 *)
(*   box      top, left, bottom, right                                     *)
(*   depth, comp, spacing, id   as written to the entry                    *)
(*   pix      the mask, one value per pixel, row-major                     *)
(*   slack    unused bytes inside the declared length, after the mask      *)
(*   form     "full"; "head": the declared length ends before the mask,    *)
(*            which the decoder then reads from the bytes that follow;     *)
(*            "tiny": a sample too short to hold a brush (a legacy entry   *)
(*            of another type); "zero": a declared length of zero          *)
(***************************************************************************)

RECURSIVE Concat(_)
Concat(ss) == IF ss = <<>> THEN <<>> ELSE Head(ss) \o Concat(Tail(ss))

Zeros(n) == [i \in 1..n |-> 0]

U32Bytes(n) == <<n \div 16777216, (n \div 65536) % 256, (n \div 256) % 256, n % 256>>

\* Two's complement, big-endian.
I32Bytes(n) ==
  IF n >= 0 THEN U32Bytes(n)
  ELSE LET m == U32Bytes((0 - n) - 1) IN [i \in 1..4 |-> 255 - m[i]]

BoxBytes(box) == I32Bytes(box[1]) \o I32Bytes(box[2]) \o I32Bytes(box[3]) \o I32Bytes(box[4])

BoxWidth(e) == e.box[4] - e.box[2]
BoxHeight(e) == e.box[3] - e.box[1]

\* The mask as stored: raw samples, or one literal run per scanline behind
\* the scanline byte counts; nothing at a depth that has no whole samples.
MaskBytes(e) ==
  LET w == BoxWidth(e)
      h == BoxHeight(e)
      bpp == IF e.depth = 16 THEN 2 ELSE 1
      row(y) == SubSeq(e.pix, (y - 1) * w + 1, y * w)
  IN IF e.depth \notin {8, 16} THEN Zeros((Len(e.pix) * e.depth) \div 8)
     ELSE IF e.comp = 0 THEN RleSamplesBytes(e.pix, e.depth)
     ELSE RleHeaders([y \in 1..h |-> 1 + w * bpp])
            \o Concat([y \in 1..h |-> <<w - 1>> \o RleSamplesBytes(row(y), e.depth)])

EntryTail(e) ==
  BoxBytes(e.box) \o U16Bytes(e.depth) \o <<e.comp>>
    \o (IF e.form = "head" THEN <<>> ELSE MaskBytes(e) \o Zeros(e.slack))

LegacyContent(e) == <<0, 0, 0, 0>> \o U16Bytes(e.spacing) \o EntryTail(e)

LegacyEntryBytes(e) ==
  LET c == IF e.form = "zero" THEN <<>> ELSE LegacyContent(e)
  IN U16Bytes(e.type) \o U32Bytes(Len(c)) \o c

SampleContent(e) ==
  <<Len(e.id)>> \o e.id
    \o (IF e.form = "tiny" THEN Zeros(8) ELSE Zeros(V62_OVERHEAD) \o EntryTail(e))

SampleBytes(e) ==
  LET c == SampleContent(e)
  IN IF e.form = "zero" THEN Zeros(8)
     ELSE U32Bytes(Len(c)) \o c \o Zeros((4 - (Len(c) % 4)) % 4)

\* The 8 bytes of a double: a value of magnitude 2^e * (1 + top / 2^20) with
\* e in -10..9, or zero.
F64Bytes(q) ==
  IF q.num = 0 THEN Zeros(8)
  ELSE
    LET a == Abs(q.num)
        e == CHOOSE k \in (0 - 10)..9 :
               IF k >= 0 THEN a >= q.den * Pow2(k) /\ a < q.den * Pow2(k + 1)
               ELSE a * Pow2(0 - k) >= q.den /\ a * Pow2(0 - k) < 2 * q.den
        top == IF e >= 0 THEN (a * 1048576) \div (q.den * Pow2(e)) - 1048576
               ELSE (a * Pow2(0 - e) * 1048576) \div q.den - 1048576
        exp == e + 1023
    IN <<(IF q.num < 0 THEN 128 ELSE 0) + exp \div 16,
         (exp % 16) * 16 + top \div 65536,
         (top \div 256) % 256, top % 256, 0, 0, 0, 0>>

EncUnicode(s) == U32Bytes(Len(s)) \o Concat([i \in 1..Len(s) |-> U16Bytes(s[i])])

EncKey(k) == IF Len(k) = 4 THEN U32Bytes(0) \o k ELSE U32Bytes(Len(k)) \o k

ClassNull == <<110, 117, 108, 108>>   \* "null"

\* A value behind its type tag.  Whole numbers are written as 32-bit
\* integers, other numbers as doubles, null as an empty binary blob; a value
\* of type "raw" stands for its bytes.
RECURSIVE EncValue(_)
EncValue(v) ==
  CASE v.t = "obj" ->
         TagObjc \o EncUnicode(<<>>) \o EncKey(ClassNull) \o U32Bytes(Len(v.keys))
           \o Concat([i \in 1..Len(v.keys) |-> EncKey(v.keys[i]) \o EncValue(v.items[i])])
    [] v.t = "list" ->
         TagVlLs \o U32Bytes(Len(v.items))
           \o Concat([i \in 1..Len(v.items) |-> EncValue(v.items[i])])
    [] v.t = "untf" -> TagUntF \o v.s \o F64Bytes(v.n)
    [] v.t = "num" -> IF v.n.den = 1 THEN TagLong \o I32Bytes(v.n.num)
                      ELSE TagDoub \o F64Bytes(v.n)
    [] v.t = "bool" -> TagBool \o <<IF v.b THEN 1 ELSE 0>>
    [] v.t = "str" -> TagTEXT \o EncUnicode(v.s)
    [] v.t = "raw" -> v.s
    [] OTHER -> TagTdta \o U32Bytes(0)

Block(key, content) == Sig8BIM \o key \o U32Bytes(Len(content)) \o content

KeyPatt == <<112, 97, 116, 116>>   \* "patt"

SampBlock(entries) ==
  Block(KeySamp, Concat([i \in 1..Len(entries) |-> SampleBytes(entries[i])]))

\* The version prefix, then the root object (without a tag) holding the list.
DescBlock(presets) ==
  Block(KeyDesc,
        <<0, 0, 0, 16>>
          \o SubSeq(EncValue(VObj(<<KeyBrsh>>, <<VList(presets)>>)), 5,
                    Len(EncValue(VObj(<<KeyBrsh>>, <<VList(presets)>>)))))

FileBlock(f, b) ==
  CASE b = "s" -> SampBlock(f.entries)
    [] b = "d" -> DescBlock(f.presets)
    [] OTHER -> Block(KeyPatt, <<1, 2, 3, 4>>)

IsLegacyVersion(v) == v = 1 \/ v = 2

\* The bytes of the whole file.
FileBytes(f) ==
  IF f.family = "short" THEN f.bytes
  ELSE IF IsLegacyVersion(f.version)
  THEN U16Bytes(f.version) \o U16Bytes(Len(f.entries))
         \o Concat([i \in 1..Len(f.entries) |-> LegacyEntryBytes(f.entries[i])])
  ELSE U16Bytes(f.version) \o <<0, 2>>
         \o Concat([i \in 1..Len(f.order) |-> FileBlock(f, f.order[i])])

(***************************************************************************)
(* The files parseAbr is run on.                                           *)
(***************************************************************************)

MaxEntries == 2            \* entries (samples) of a file

IdAbc == <<97, 98, 99>>    \* "abc"
IdDe == <<100, 101>>       \* "de"
IdXyz == <<120, 121, 122>> \* "xyz"
NameNib == <<78, 105, 98>> \* "Nib"
NameInk == <<73, 110, 107, 0>> \* "Ink\0"

Entry(box, depth, comp, pix, spacing, slack, form) ==
  [type |-> IF form = "tiny" THEN 1 ELSE 2, box |-> box, depth |-> depth,
   comp |-> comp, pix |-> pix, spacing |-> spacing, id |-> <<>>, slack |-> slack,
   form |-> form]

GoodRaw8 == Entry(<<0, 0, 1, 2>>, 8, 0, <<7, 9>>, 25, 0, "full")
GoodRle16 == Entry(<<3, 1, 5, 2>>, 16, 1, <<9, 7>>, 40, 0, "full")
GoodSlack == Entry(<<0, 0, 2, 1>>, 8, 1, <<9, 9>>, 10, 3, "full")
BadNegative == Entry(<<0, 0, 1, 0 - 5>>, 8, 0, <<7, 9>>, 25, 0, "full")
BadWide == Entry(<<0, 0, 1, 5001>>, 8, 0, <<7, 9>>, 25, 0, "full")
BadFlat == Entry(<<2, 0 - 1, 2, 1>>, 8, 0, <<7, 9>>, 25, 0, "full")
HeadOnly == Entry(<<0, 0, 1, 2>>, 8, 0, <<7, 9>>, 25, 0, "head")
OneBit == Entry(<<0, 0, 1, 8>>, 1, 0, <<0, 0, 0, 0, 0, 0, 0, 0>>, 25, 0, "full")
Tiny == Entry(<<0, 0, 1, 2>>, 8, 0, <<7, 9>>, 25, 0, "tiny")
ZeroLength == Entry(<<0, 0, 1, 2>>, 8, 0, <<7, 9>>, 25, 0, "zero")

EntryKinds == {GoodRaw8, GoodRle16, GoodSlack, BadNegative, BadWide, BadFlat,
               HeadOnly, OneBit, Tiny, ZeroLength}

\* The entry is whole but for a box whose width or height is <= 0 or > 5000.
BadBox(e) ==
  /\ e.form = "full" /\ e.type = 2
  /\ BoxWidth(e) \notin 1..5000 \/ BoxHeight(e) \notin 1..5000

\* The entry is whole, its box within bounds, its mask of 8- or 16-bit samples.
WellFormed(e) ==
  /\ e.form = "full" /\ e.type = 2 /\ e.depth \in {8, 16}
  /\ BoxWidth(e) \in 1..5000 /\ BoxHeight(e) \in 1..5000
  /\ Len(e.pix) = BoxWidth(e) * BoxHeight(e)

\* The sequences over S of length 1..n.
SeqsUpTo(S, n) == UNION {[1..k -> S] : k \in 1..n}

\* Presets of the descriptor block.
Brsh(id, more) == ObjSet(more, KeySampledData, id)
Percent(n) == VUntF(UnitPrc, Q(n, 1))
Controller(bvty, jitter, min) ==
  VObj(<<KeyBVTy, KeyJitter, KeyMnm>>, <<VNum(Q(bvty, 1)), Percent(jitter), Percent(min)>>)

\* "abc\0\0": a name, a spacing, shape dynamics, scatter and tool options.
PresetPadded ==
  VObj(<<KeyNm, KeyBrsh, KeyUseTipDynamics, KeySzVr, KeyMinimumDiameter, KeyUseScatter,
         KeyCnt, KeyToolOptions>>,
       <<VStr(NameInk),
         Brsh(VStr(IdAbc \o <<0, 0>>), VObj(<<KeySpcn>>, <<Percent(50)>>)),
         VBool(TRUE), Controller(2, 0, 25), Percent(10), VBool(TRUE), VNum(Q(3, 1)),
         VObj(<<KeyUsePressureOverridesOpacity>>, <<VBool(TRUE)>>)>>)

\* " abc\0 ": nothing but the identifier.
PresetSpaced ==
  VObj(<<KeyBrsh>>, <<Brsh(VStr(<<32>> \o IdAbc \o <<0, 32>>), VObj(<<>>, <<>>))>>)

\* "de": a name and transfer dynamics; the spacing is not positive.
PresetDe ==
  VObj(<<KeyNm, KeyBrsh, KeyUsePaintDynamics, KeyOpVr>>,
       <<VStr(NameNib), Brsh(VStr(IdDe), VObj(<<KeySpcn>>, <<Percent(0)>>)),
         VBool(TRUE), Controller(1, 5, 0)>>)

\* "xyz"
PresetXyz ==
  VObj(<<KeyNm, KeyBrsh>>,
       <<VStr(NameNib), Brsh(VStr(IdXyz), VObj(<<KeySpcn>>, <<Percent(50)>>))>>)

\* "\0": the identifier is empty once it is cleaned.
PresetBlank == VObj(<<KeyBrsh>>, <<Brsh(VStr(<<0>>), VObj(<<>>, <<>>))>>)

\* No Brsh key.
PresetNoBrsh == VObj(<<KeyNm>>, <<VStr(NameNib)>>)

\* A list item that is not an object (a binary blob decodes to null).
PresetNull == VNull

\* The identifier is a number.
PresetNumberId == VObj(<<KeyBrsh>>, <<Brsh(VNum(Q(7, 1)), VObj(<<>>, <<>>))>>)

\* "abc" with a name that is a number.
PresetNumberName ==
  VObj(<<KeyNm, KeyBrsh>>, <<VNum(Q(3, 1)), Brsh(VStr(IdAbc), VObj(<<>>, <<>>))>>)

PresetKinds == {PresetPadded, PresetSpaced, PresetDe, PresetXyz, PresetBlank,
                PresetNoBrsh, PresetNull, PresetNumberId, PresetNumberName}

PresetLists ==
  {<<>>} \cup {<<p>> : p \in PresetKinds} \cup {<<p, q>> : p \in PresetKinds, q \in PresetKinds}

SampleIds == {IdAbc, IdDe, <<>>}

File(family, v, entries, presets, order) ==
  [family |-> family, version |-> v, entries |-> entries, presets |-> presets,
   order |-> order, cut |-> 0, bytes |-> <<>>]

Whole(f) == [f EXCEPT !.cut = Len(FileBytes(f))]

\* Every sequence of entry kinds, as a legacy file and as a samp block.
PackFiles ==
  {Whole(File("pack", v, es, <<>>, <<"s">>)) : v \in {2, 6}, es \in SeqsUpTo(EntryKinds, MaxEntries)}

\* Samples by identifier with every list of presets, the desc block after
\* the samp block or before it.
MergeFiles ==
  {Whole(File("merge", 6, [i \in 1..Len(ids) |-> [GoodRaw8 EXCEPT !.id = ids[i]]], ps, order)) :
     ids \in SeqsUpTo(SampleIds, MaxEntries), ps \in PresetLists,
     order \in {<<"s", "d">>, <<"d", "x", "s">>}}

\* One entry under every version of interest.
SweepVersions == (0..12) \cup {255, 256, 258, 262, 513, 1536, 65535}
SweepFiles ==
  {Whole(File("sweep", v, <<GoodRaw8>>, <<>>, <<"s">>)) : v \in SweepVersions}

\* Every proper prefix of a legacy file and of a resource-block file that
\* still holds the header.
CutBases ==
  {File("cut", 2, <<GoodRle16, GoodRaw8>>, <<>>, <<"s">>),
   File("cut", 6, <<[GoodRaw8 EXCEPT !.id = IdAbc], [GoodRle16 EXCEPT !.id = IdDe]>>,
        <<PresetPadded>>, <<"s", "d">>)}
CutFiles ==
  UNION {{[f EXCEPT !.cut = n] : n \in 4..(Len(FileBytes(f)) - 1)} : f \in CutBases}

\* Every buffer shorter than the header over a few byte values.
ShortBytes == {0, 1, 2, 6}
ShortFiles ==
  {[File("short", 0 - 1, <<>>, <<>>, <<>>) EXCEPT !.bytes = b, !.cut = Len(b)] :
     b \in UNION {[1..k -> ShortBytes] : k \in 0..3}}

AbrFiles == PackFiles \cup MergeFiles \cup SweepFiles \cup CutFiles \cup ShortFiles

InitAbr ==
  /\ file \in AbrFiles
  /\ buffer = SubSeq(FileBytes(file), 1, file.cut)
  /\ offset = 0 /\ pc = "start"
  /\ version = 0 - 1 /\ route = "none" /\ error = "none"
  /\ brushes = <<>> /\ count = 0 /\ entryIdx = 0
  /\ blocks = <<>> /\ blockIdx = 0 /\ blockEnd = 0 /\ brushIdx = 0
  /\ descPresets = <<>> /\ mergeIdx = 0 /\ entryLog = <<>>

(***************************************************************************)
(* One preset through the normalizer: its descriptor is decoded from its   *)
(* bytes, descriptorToDynamics is applied, and the brush it belongs to is  *)
(* turned into a tip.                                                      *)
(***************************************************************************)

\* rawBrushToTip: spacing: raw.spacing > 0 ? raw.spacing : 0.25
TipSpacing(spacing) == IF IsPositive(spacing) THEN spacing ELSE Q(1, 4)

NormPercents == {0 - 10, 0, 25, 150}      \* jitter and minimum, in percent
NormSpacings == {0 - 25, 0, 25, 150}      \* Brsh.Spcn in percent
NormDiameters == {0, 10, 250}             \* minimumDiameter in percent, 0: no such key
NormControls == {0, 2}                    \* bVTy: off, pressure
RawSpacings == {Q(0 - 1, 4), Zero, Q(1, 4), NaN}

\* A preset whose six controllers are all the given one.
NormPreset(spcn, bvty, jitter, min, diam) ==
  LET c == Controller(bvty, jitter, min)
      base == VObj(<<KeyBrsh, KeyUseTipDynamics, KeySzVr, KeyAngleDynamics,
                     KeyRoundnessDynamics, KeyUseScatter, KeyScatterDynamics,
                     KeyUsePaintDynamics, KeyOpVr, KeyPrVr>>,
                   <<VObj(<<KeySpcn>>, <<Percent(spcn)>>), VBool(TRUE), c, c, c,
                     VBool(TRUE), c, VBool(TRUE), c, c>>)
  IN IF diam = 0 THEN base ELSE ObjSet(base, KeyMinimumDiameter, Percent(diam))

NormInit ==
  /\ normPc = "encoded"
  /\ \E spcn \in NormSpacings, bvty \in NormControls, jitter \in NormPercents,
        min \in NormPercents, diam \in NormDiameters, raw \in RawSpacings :
       normIn = [preset |-> NormPreset(spcn, bvty, jitter, min, diam),
                 bytes |-> SubSeq(EncValue(NormPreset(spcn, bvty, jitter, min, diam)), 5,
                                  Len(EncValue(NormPreset(spcn, bvty, jitter, min, diam)))),
                 rawSpacing |-> raw]
  /\ normDesc = VUndef
  /\ normOut = NoDynamics
  /\ normTip = Zero

\* ---- presets with tool options and scatter through the same normalizer

FlagValues == {"absent", "false", "true"}
OptionControls == {0 - 1, 0, 2, 3}        \* bVTy: no controller object, off, pressure, tilt
OptionCounts == {0 - 2, 0, 1, 3}          \* "Cnt "

\* obj with key set to v when present holds.
ObjSetIf(present, obj, key, v) == IF present THEN ObjSet(obj, key, v) ELSE obj

FlagObject(flagSize, flagOpacity) ==
  ObjSetIf(flagOpacity # "absent",
           ObjSetIf(flagSize # "absent", VObj(<<>>, <<>>), KeyUsePressureOverridesSize,
                    VBool(flagSize = "true")),
           KeyUsePressureOverridesOpacity, VBool(flagOpacity = "true"))

OptionPreset(tip, szc, paint, opc, opts, flagSize, flagOpacity, scatter, hasCnt, cnt) ==
  ObjSetIf(opts,
    ObjSetIf(hasCnt,
      ObjSetIf(opc >= 0,
        ObjSetIf(szc >= 0,
          VObj(<<KeyBrsh, KeyUseTipDynamics, KeyUsePaintDynamics, KeyUseScatter>>,
               <<VObj(<<KeySpcn>>, <<Percent(25)>>), VBool(tip), VBool(paint), VBool(scatter)>>),
          KeySzVr, Controller(szc, 25, 50)),
        KeyOpVr, Controller(opc, 25, 50)),
      KeyCnt, VNum(Q(cnt, 1))),
    KeyToolOptions, FlagObject(flagSize, flagOpacity))

OptionInit ==
  /\ normPc = "encoded"
  /\ \E tip \in BOOLEAN, szc \in OptionControls, paint \in BOOLEAN, opc \in OptionControls,
        opts \in BOOLEAN, flagSize \in FlagValues, flagOpacity \in FlagValues,
        scatter \in BOOLEAN, hasCnt \in BOOLEAN, cnt \in OptionCounts :
       /\ ~opts => flagSize = "absent" /\ flagOpacity = "absent"
       /\ ~hasCnt => cnt = 1
       /\ normIn = [preset |-> OptionPreset(tip, szc, paint, opc, opts, flagSize, flagOpacity,
                                            scatter, hasCnt, cnt),
                    bytes |-> SubSeq(EncValue(OptionPreset(tip, szc, paint, opc, opts, flagSize,
                                                           flagOpacity, scatter, hasCnt, cnt)), 5,
                                     Len(EncValue(OptionPreset(tip, szc, paint, opc, opts,
                                                               flagSize, flagOpacity, scatter,
                                                               hasCnt, cnt)))),
                    rawSpacing |-> Q(1, 4),
                    flagSize |-> opts /\ flagSize = "true",
                    flagOpacity |-> opts /\ flagOpacity = "true",
                    useScatter |-> scatter,
                    hasCnt |-> hasCnt,
                    cnt |-> cnt]
  /\ normDesc = VUndef
  /\ normOut = NoDynamics
  /\ normTip = Zero

\* readDescriptor over the preset's bytes.
NormDecode ==
  /\ normPc = "encoded"
  /\ \E d \in {readDescriptor(normIn.bytes, 0)} :
       /\ d.ok
       /\ normDesc' = d.v
  /\ normPc' = "decoded"
  /\ UNCHANGED <<normIn, normOut, normTip, abrVars, rleVars, strokeVars, calls, descVars, readerVars, loadVars, orderVars, extraVars>>

\* descriptorToDynamics(preset)
NormApply ==
  /\ normPc = "decoded"
  /\ normOut' = descriptorToDynamics(normDesc)
  /\ normPc' = "normalized"
  /\ UNCHANGED <<normIn, normDesc, normTip, abrVars, rleVars, strokeVars, calls, descVars, readerVars, loadVars, orderVars, extraVars>>

\* rawBrushToTip(raw)
NormTip ==
  /\ normPc = "normalized"
  /\ normTip' = TipSpacing(normIn.rawSpacing)
  /\ normPc' = "done"
  /\ UNCHANGED <<normIn, normDesc, normOut, abrVars, rleVars, strokeVars, calls, descVars, readerVars, loadVars, orderVars, extraVars>>

(***************************************************************************)
(* One descriptor with a value of an unknown type in it.  The object that  *)
(* holds the unknown value has some keys before it and some after it, and  *)
(* is itself the first value of zero, one or two enclosing objects, each   *)
(* with some keys after it.                                                *)
(***************************************************************************)

MaxDepth == 2             \* objects around the one with the unknown value

TagUnknown == <<122, 122, 122, 122>>                    \* "zzzz"
KeyInner == <<105, 110, 110, 114>>                      \* "innr"
KeyOdd == <<117, 110, 107, 110>>                        \* "unkn"
KeysBefore == <<<<98, 102, 48, 49>>, <<98, 102, 48, 50>>>>     \* "bf01", "bf02"
KeysAfter == <<<<97, 102, 48, 49>>>>                    \* "af01"
KeysLater == <<<<108, 116, 48, 49>>, <<108, 116, 48, 50>>>>    \* "lt01", "lt02"
ValuesBefore == <<VNum(Q(1, 1)), VBool(TRUE)>>
ValuesAfter == <<VNum(Q(2, 1))>>
ValuesLater == <<VNum(Q(3, 1)), VStr(<<120>>)>>

\* The bytes that follow the unknown tag in the file.
UnknownPayloads == {<<>>, <<0, 0, 0, 0>>, <<0, 0, 255, 255>>}

Raw(bytes) == [VUndef EXCEPT !.t = "raw", !.s = bytes]

\* The object as written: nb keys, the unknown value, na keys.
OddObject(nb, na, payload) ==
  VObj(SubSeq(KeysBefore, 1, nb) \o <<KeyOdd>> \o SubSeq(KeysAfter, 1, na),
       SubSeq(ValuesBefore, 1, nb) \o <<Raw(TagUnknown \o payload)>> \o SubSeq(ValuesAfter, 1, na))

\* The keys of that object that precede the unknown value.
KeptObject(nb) == VObj(SubSeq(KeysBefore, 1, nb), SubSeq(ValuesBefore, 1, nb))

\* v as the first value of an object with nl keys after it, depth times.
RECURSIVE Enclose(_, _, _)
Enclose(v, nl, depth) ==
  IF depth = 0 THEN v
  ELSE Enclose(VObj(<<KeyInner>> \o SubSeq(KeysLater, 1, nl),
                    <<v>> \o SubSeq(ValuesLater, 1, nl)), nl, depth - 1)

\* The bytes of a descriptor: the object without its type tag.
DescriptorBytes(v) == SubSeq(EncValue(v), 5, Len(EncValue(v)))

DescInit ==
  /\ descPc = "encoded"
  /\ \E depth \in 0..MaxDepth, nb \in 0..Len(KeysBefore), na \in 0..Len(KeysAfter),
        nl \in 0..Len(KeysLater), payload \in UnknownPayloads :
       descIn = [depth |-> depth, after |-> na, later |-> nl, payload |-> payload,
                 bytes |-> DescriptorBytes(Enclose(OddObject(nb, na, payload), nl, depth)),
                 local |-> Enclose(KeptObject(nb), nl, depth)]
  /\ descOut = Threw(0)

\* readDescriptor(reader)
DescDecode ==
  /\ descPc = "encoded"
  /\ descOut' = readDescriptor(descIn.bytes, 0)
  /\ descPc' = "done"
  /\ UNCHANGED <<descIn, abrVars, rleVars, strokeVars, calls, normVars, readerVars, loadVars, orderVars, extraVars>>

(***************************************************************************)
(* One AbrReader under arbitrary calls.  rdLast is the last call: the      *)
(* operation, its argument, the cursor it found and whether it returned    *)
(* (ok) or threw.  A caller that catches the RangeError goes on using the  *)
(* reader, as the decoders do.                                             *)
(***************************************************************************)

MaxViewLen == 9           \* bytes in the buffer
MaxOffset == 12           \* furthest position skip and seek are asked for

ReaderArgs == {0, 1, 3, 8}             \* n of readBytes(n) and skip(n)

\* new AbrReader(buffer)
ReaderInit ==
  /\ rdView \in {[i \in 1..n |-> (37 * i) % 128] : n \in 0..MaxViewLen}
  /\ rdOffset = 0
  /\ rdLast = [op |-> "new", n |-> 0, before |-> 0, ok |-> TRUE]

ReaderCall(op, n, r) ==
  /\ rdOffset' = r.pos
  /\ rdLast' = [op |-> op, n |-> n, before |-> rdOffset, ok |-> r.ok]
  /\ UNCHANGED <<rdView, abrVars, rleVars, strokeVars, calls, normVars, descVars, loadVars, orderVars, extraVars>>

ReaderUint8 == ReaderCall("readUint8", 0, readUint8(rdView, rdOffset))
ReaderInt8 == ReaderCall("readInt8", 0, readInt8(rdView, rdOffset))
ReaderUint16 == ReaderCall("readUint16", 0, readUint16(rdView, rdOffset))
ReaderInt16 == ReaderCall("readInt16", 0, readInt16(rdView, rdOffset))
ReaderUint32 == ReaderCall("readUint32", 0, readUint32(rdView, rdOffset))
ReaderInt32 == ReaderCall("readInt32", 0, readInt32(rdView, rdOffset))
ReaderFloat64 == ReaderCall("readFloat64", 0, readFloat64(rdView, rdOffset))
\* (readSignature moves the cursor even when it throws: the guard keeps the
\* cursor within MaxOffset.)
ReaderSignature ==
  /\ rdOffset < MaxOffset
  /\ ReaderCall("readSignature", 0, readSignature(rdView, rdOffset))
ReaderBytes == \E n \in ReaderArgs : ReaderCall("readBytes", n, readBytes(rdView, rdOffset, n))

\* skip(n): this._offset += n
ReaderSkip ==
  \E n \in ReaderArgs :
    /\ rdOffset + n <= MaxOffset
    /\ ReaderCall("skip", n, [ok |-> TRUE, pos |-> rdOffset + n])

\* seek(pos): this._offset = pos
ReaderSeek ==
  \E p \in 0..MaxOffset : ReaderCall("seek", p, [ok |-> TRUE, pos |-> p])

(***************************************************************************)
(* loadAbrFile and handleImport: one import.  rawBrushes is what parseAbr  *)
(* returned; builds says whether createImageBitmap will fulfil or reject   *)
(* the promise for that brush.  The only suspension point is the await of  *)
(* rawBrushToTip, at which the creation is outstanding.                    *)
(***************************************************************************)

MaxRaw == 3               \* brushes parseAbr returned

NameSeparator == <<83, 69, 80, 65, 82, 65, 84, 79, 82>>    \* "SEPARATOR"

RawKinds ==
  {[name |-> NameNib, width |-> 8, height |-> 8, builds |-> TRUE, spacing |-> Q(1, 4),
    dynamics |-> NoDynamics],
   [name |-> NameInk, width |-> 8, height |-> 4, builds |-> FALSE, spacing |-> Zero,
    dynamics |-> NoDynamics],
   [name |-> NameNib, width |-> 3, height |-> 8, builds |-> TRUE, spacing |-> Q(1, 4),
    dynamics |-> NoDynamics],
   [name |-> NameSeparator, width |-> 8, height |-> 8, builds |-> TRUE, spacing |-> Q(1, 4),
    dynamics |-> NoDynamics]}

\* String.toLowerCase on the letters A-Z.
LowerCase(s) == [i \in 1..Len(s) |-> IF s[i] \in 65..90 THEN s[i] + 32 ELSE s[i]]

\* The two continue tests of the loop: tiny placeholder brushes and separators.
Skipped(raw) ==
  \/ raw.width < 4 \/ raw.height < 4
  \/ LowerCase(raw.name) = LowerCase(NameSeparator)

\* A loop that goes on to the next brush without waiting for the creation.
AfterStartDetached == "loop"

\* const tip = await rawBrushToTip(raw): the loop is suspended.
AfterStart == "awaiting"

LoadInit ==
  /\ loadPc = "loop"
  /\ rawBrushes \in SeqsUpTo(RawKinds, MaxRaw) \cup {<<>>}
  /\ loadIdx = 1
  /\ results = <<>>
  /\ creating = {}
  /\ loadLog = <<>>
  /\ libPresets = <<>>

loadFrame == <<abrVars, rleVars, strokeVars, calls, normVars, descVars, readerVars, orderVars, extraVars>>

\* continue
LoadSkip ==
  /\ loadPc = "loop"
  /\ loadIdx <= Len(rawBrushes)
  /\ Skipped(rawBrushes[loadIdx])
  /\ loadIdx' = loadIdx + 1
  /\ UNCHANGED <<loadPc, rawBrushes, results, creating, loadLog, libPresets, loadFrame>>

\* rawBrushToTip up to its await: createImageBitmap is called.  loadIdx is
\* from here on the brush the loop takes up next.
LoadCreate ==
  /\ loadPc = "loop"
  /\ loadIdx <= Len(rawBrushes)
  /\ ~Skipped(rawBrushes[loadIdx])
  /\ creating' = creating \cup {loadIdx}
  /\ loadLog' = Append(loadLog, <<"create", loadIdx>>)
  /\ loadPc' = AfterStart
  /\ loadIdx' = loadIdx + 1
  /\ UNCHANGED <<rawBrushes, results, libPresets, loadFrame>>

\* The promise is fulfilled: results.push({tip, dynamics, presetName}).
LoadResolve ==
  /\ loadPc = "awaiting"
  /\ \E i \in creating :
       /\ rawBrushes[i].builds
       /\ creating' = creating \ {i}
       /\ loadLog' = Append(loadLog, <<"created", i>>)
       /\ results' = Append(results, [src |-> i,
                                      name |-> rawBrushes[i].name,
                                      spacing |-> TipSpacing(rawBrushes[i].spacing),
                                      dynamics |-> rawBrushes[i].dynamics])
  /\ loadPc' = "loop"
  /\ UNCHANGED <<rawBrushes, loadIdx, libPresets, loadFrame>>

\* The promise is rejected: the await throws, nothing in loadAbrFile catches
\* it, and the promise of loadAbrFile is rejected.
LoadReject ==
  /\ loadPc = "awaiting"
  /\ \E i \in creating :
       /\ ~rawBrushes[i].builds
       /\ creating' = creating \ {i}
       /\ loadLog' = Append(loadLog, <<"failed", i>>)
  /\ loadPc' = "rejected"
  /\ UNCHANGED <<rawBrushes, loadIdx, results, libPresets, loadFrame>>

\* return results; handleImport builds a preset of each and sets presets.
LoadReturn ==
  /\ loadPc = "loop"
  /\ loadIdx > Len(rawBrushes)
  /\ libPresets' = [i \in 1..Len(results) |->
                   [src |-> results[i].src, name |-> results[i].name,
                    spacing |-> results[i].spacing,
                    dynamics |-> ImportDynamics(results[i])]]
  /\ loadPc' = "imported"
  /\ UNCHANGED <<rawBrushes, loadIdx, results, creating, loadLog, loadFrame>>

\* handleImport: catch (err) { console.error(...) }: presets is not set.
LoadCatch ==
  /\ loadPc = "rejected"
  /\ loadPc' = "failed"
  /\ UNCHANGED <<rawBrushes, loadIdx, results, creating, loadLog, libPresets, loadFrame>>

\* ---- parseAbr on one resource-block file, then on the same file with the
\* ---- order of its blocks reversed

Reverse(s) == [i \in 1..Len(s) |-> s[Len(s) + 1 - i]]

\* Samples of a file: whole masks, a sample the loop breaks at, a box out of
\* bounds, and a sample that ends right after its compression byte.
OrderEntries ==
  {[GoodRaw8 EXCEPT !.id = IdAbc], [GoodRle16 EXCEPT !.id = IdDe], ZeroLength,
   BadNegative, [HeadOnly EXCEPT !.id = IdAbc]}

OrderPresets == {<<>>, <<PresetPadded>>, <<PresetDe, PresetXyz>>, <<PresetNull, PresetPadded>>}

\* Version 6 files of one samp block and one desc block, the samp block first.
OrderFiles ==
  {Whole(File("order", 6, es, ps, order)) :
     es \in SeqsUpTo(OrderEntries, MaxEntries), ps \in OrderPresets,
     order \in {<<"s", "d">>, <<"s", "x", "d">>}}

OrderInit ==
  /\ file \in OrderFiles
  /\ buffer = FileBytes(file)
  /\ offset = 0 /\ pc = "start"
  /\ version = 0 - 1 /\ route = "none" /\ error = "none"
  /\ brushes = <<>> /\ count = 0 /\ entryIdx = 0
  /\ blocks = <<>> /\ blockIdx = 0 /\ blockEnd = 0 /\ brushIdx = 0
  /\ descPresets = <<>> /\ mergeIdx = 0 /\ entryLog = <<>>
  /\ orderRun = 1 /\ firstRun = <<>>

\* parseAbr has returned or thrown: its outcome is kept and a fresh parseAbr
\* is started on the file with its blocks in the reverse order.
OrderSwap ==
  /\ orderRun = 1
  /\ pc \in {"done", "failed"}
  /\ firstRun' = [pc |-> pc, error |-> error, brushes |-> brushes, entryLog |-> entryLog]
  /\ orderRun' = 2
  /\ file' = Whole([file EXCEPT !.order = Reverse(file.order)])
  /\ buffer' = FileBytes(file')
  /\ offset' = 0 /\ pc' = "start"
  /\ version' = 0 - 1 /\ route' = "none" /\ error' = "none"
  /\ brushes' = <<>> /\ count' = 0 /\ entryIdx' = 0
  /\ blocks' = <<>> /\ blockIdx' = 0 /\ blockEnd' = 0 /\ brushIdx' = 0
  /\ descPresets' = <<>> /\ mergeIdx' = 0 /\ entryLog' = <<>>
  /\ UNCHANGED <<rleVars, strokeVars, calls, normVars, descVars, readerVars, loadVars, extraVars>>

\* ---- BrushEngine.applyController under arbitrary arguments

ControlKinds == {"off", "fade", "pressure", "tilt", "direction"}
ControlMinimums == {Zero, Q(1, 10), Q(1, 2), One}
ControlPressures == {Zero, Q(1, 4), One}
\* Tilt vectors in degrees, each axis within -90..90, of whole magnitude.
ControlTilts == {<<0, 0>>, <<0, 45>>, <<0 - 27, 36>>, <<54, 72>>, <<0, 0 - 90>>,
                 <<60, 80>>, <<0 - 63, 0 - 84>>, <<90, 0>>}

\* Math.sqrt(tiltX * tiltX + tiltY * tiltY)
TiltMagnitude(tiltX, tiltY) ==
  CHOOSE d \in 0..180 : d * d = tiltX * tiltX + tiltY * tiltY

\* Math.sqrt(tiltX * tiltX + tiltY * tiltY) / 90
TiltAmount(tiltX, tiltY) == Q(TiltMagnitude(tiltX, tiltY), 90)

applyController(ctrl, pressure, tiltX, tiltY) ==
  LET min == ctrl.minimum IN
  CASE ctrl.control = "pressure" -> QAdd(min, QMul(QSub(One, min), pressure))
    [] ctrl.control = "tilt" -> QAdd(min, QMul(QSub(One, min), TiltAmount(tiltX, tiltY)))
    [] OTHER -> One

CtlInit == ctlCall = <<>>

ApplyController ==
  \E control \in ControlKinds, min \in ControlMinimums, pressure \in ControlPressures,
     tilt \in ControlTilts :
    LET ctrl == [control |-> control, jitter |-> Zero, minimum |-> min,
                 fadeSteps |-> VNum(Zero)]
    IN /\ ctlCall' = [ctrl |-> ctrl, pressure |-> pressure, tiltX |-> tilt[1],
                      tiltY |-> tilt[2],
                      result |-> applyController(ctrl, pressure, tilt[1], tilt[2])]
       /\ UNCHANGED <<abrVars, rleVars, strokeVars, calls, normVars, descVars, readerVars,
                      loadVars, orderVars, layerVars>>

\* ---- LayerManager under arbitrary calls

MaxLayerId == 5            \* ids the counter may hand out

\* this.layers.findIndex((l) => l.id === id), 1-based; 0: not found
FindIndex(ls, id) ==
  IF \E i \in 1..Len(ls) : ls[i] = id
  THEN CHOOSE i \in 1..Len(ls) : ls[i] = id
  ELSE 0

\* splice(idx, 1)
RemoveAt(ls, idx) == SubSeq(ls, 1, idx - 1) \o SubSeq(ls, idx + 1, Len(ls))

\* splice(at, 0, id): id becomes the element after the first `after` ones
InsertAfter(ls, after, id) == SubSeq(ls, 1, after) \o <<id>> \o SubSeq(ls, after + 1, Len(ls))

lmFrame == <<abrVars, rleVars, strokeVars, calls, normVars, descVars, readerVars, loadVars,
             orderVars, ctlCall>>

LayerNew == lmPc = "new" /\ layers = <<>> /\ activeLayerId = 0 /\ nextId = 1

\* init(physW, physH)
LayerInit ==
  /\ lmPc \in {"new", "ready"}
  /\ nextId <= MaxLayerId
  /\ layers' = <<nextId>>
  /\ activeLayerId' = nextId
  /\ nextId' = nextId + 1
  /\ lmPc' = "ready"
  /\ UNCHANGED lmFrame

\* addLayer(name)
AddLayer ==
  /\ lmPc = "ready"
  /\ nextId <= MaxLayerId
  /\ LET activeIdx == FindIndex(layers, activeLayerId)
         insertAt == IF activeIdx >= 1 THEN activeIdx ELSE Len(layers)
     IN layers' = InsertAfter(layers, insertAt, nextId)
  /\ activeLayerId' = nextId
  /\ nextId' = nextId + 1
  /\ UNCHANGED <<lmPc, lmFrame>>

\* A deleteLayer without the guard on the last layer.
DeleteLayerAny(ls, active, id) ==
  LET idx == FindIndex(ls, id)
      rest == RemoveAt(ls, idx)
  IN IF idx = 0 THEN [layers |-> ls, active |-> active]
     ELSE [layers |-> rest,
           active |-> IF active = id /\ rest # <<>> THEN rest[Min(idx, Len(rest))] ELSE active]

\* deleteLayer(id): the list and the active id it leaves
DeleteLayerResult(ls, active, id) ==
  LET idx == FindIndex(ls, id)
      rest == RemoveAt(ls, idx)
  IN IF Len(ls) <= 1 \/ idx = 0 THEN [layers |-> ls, active |-> active]
     ELSE [layers |-> rest,
           active |-> IF active = id THEN rest[Min(idx, Len(rest))] ELSE active]

DeleteLayer ==
  /\ lmPc = "ready"
  /\ \E id \in 1..MaxLayerId :
       /\ layers' = DeleteLayerResult(layers, activeLayerId, id).layers
       /\ activeLayerId' = DeleteLayerResult(layers, activeLayerId, id).active
  /\ UNCHANGED <<lmPc, nextId, lmFrame>>

\* duplicateLayer(id)
DuplicateLayer ==
  /\ lmPc = "ready"
  /\ \E id \in 1..MaxLayerId :
       IF FindIndex(layers, id) = 0 THEN UNCHANGED <<layers, activeLayerId, nextId>>
       ELSE /\ nextId <= MaxLayerId
            /\ layers' = InsertAfter(layers, FindIndex(layers, id), nextId)
            /\ activeLayerId' = nextId
            /\ nextId' = nextId + 1
  /\ UNCHANGED <<lmPc, lmFrame>>

\* reorderLayer(fromIdx, toIdx) on 0-based indices: the list it leaves
ReorderResult(ls, fromIdx, toIdx) ==
  IF fromIdx = toIdx \/ fromIdx < 0 \/ toIdx < 0 \/ fromIdx >= Len(ls) \/ toIdx >= Len(ls)
  THEN ls
  ELSE InsertAfter(RemoveAt(ls, fromIdx + 1), toIdx, ls[fromIdx + 1])

ReorderLayer ==
  /\ lmPc = "ready"
  /\ \E fromIdx \in (0 - 1)..MaxLayerId, toIdx \in (0 - 1)..MaxLayerId :
       layers' = ReorderResult(layers, fromIdx, toIdx)
  /\ UNCHANGED <<lmPc, activeLayerId, nextId, lmFrame>>

\* moveLayerUp(id)
MoveLayerUp ==
  /\ lmPc = "ready"
  /\ \E id \in 1..MaxLayerId :
       LET idx == FindIndex(layers, id) - 1 IN
       layers' = IF idx >= 0 /\ idx < Len(layers) - 1
                 THEN ReorderResult(layers, idx, idx + 1) ELSE layers
  /\ UNCHANGED <<lmPc, activeLayerId, nextId, lmFrame>>

\* moveLayerDown(id)
MoveLayerDown ==
  /\ lmPc = "ready"
  /\ \E id \in 1..MaxLayerId :
       LET idx == FindIndex(layers, id) - 1 IN
       layers' = IF idx > 0 THEN ReorderResult(layers, idx, idx - 1) ELSE layers
  /\ UNCHANGED <<lmPc, activeLayerId, nextId, lmFrame>>

\* mergeDown(id)
MergeDown ==
  /\ lmPc = "ready"
  /\ \E id \in 1..MaxLayerId :
       LET idx == FindIndex(layers, id) - 1 IN
       IF idx <= 0 THEN UNCHANGED <<layers, activeLayerId>>
       ELSE /\ layers' = RemoveAt(layers, idx + 1)
            /\ activeLayerId' = layers[idx]
  /\ UNCHANGED <<lmPc, nextId, lmFrame>>

\* flatten()
Flatten ==
  /\ lmPc = "ready"
  /\ nextId <= MaxLayerId
  /\ layers' = <<nextId>>
  /\ activeLayerId' = nextId
  /\ nextId' = nextId + 1
  /\ UNCHANGED <<lmPc, lmFrame>>

\* dispose()
LayerDispose ==
  /\ lmPc = "ready"
  /\ layers' = <<>>
  /\ lmPc' = "disposed"
  /\ UNCHANGED <<activeLayerId, nextId, lmFrame>>

\* ---- the parts of the state a specification leaves alone

AbrIdle ==
  /\ file = <<>> /\ buffer = <<>> /\ offset = 0 /\ pc = "idle"
  /\ version = -1 /\ route = "none" /\ error = "none"
  /\ brushes = <<>> /\ count = 0 /\ entryIdx = 0
  /\ blocks = <<>> /\ blockIdx = 0 /\ blockEnd = 0 /\ brushIdx = 0
  /\ descPresets = <<>> /\ mergeIdx = 0 /\ entryLog = <<>>

StrokeIdle ==
  /\ strokePc = "idle" /\ engine = <<>> /\ stroke = FreshStroke
  /\ stamps = <<>> /\ path = <<>> /\ fed = 0

CallsIdle == calls = <<>>

NormIdle ==
  /\ normPc = "idle" /\ normIn = <<>> /\ normDesc = VUndef
  /\ normOut = NoDynamics /\ normTip = Zero

DescIdle == descPc = "idle" /\ descIn = <<>> /\ descOut = Threw(0)

ReaderIdle ==
  /\ rdView = <<>> /\ rdOffset = 0
  /\ rdLast = [op |-> "none", n |-> 0, before |-> 0, ok |-> TRUE]

LoadIdle ==
  /\ loadPc = "idle" /\ rawBrushes = <<>> /\ loadIdx = 1 /\ results = <<>>
  /\ creating = {} /\ loadLog = <<>> /\ libPresets = <<>>

OrderIdle == orderRun = 0 /\ firstRun = <<>>

CtlIdle == ctlCall = <<>>

LayerIdle == lmPc = "idle" /\ layers = <<>> /\ activeLayerId = 0 /\ nextId = 1

ExtraIdle == CtlIdle /\ LayerIdle

SideIdle == CallsIdle /\ NormIdle /\ DescIdle /\ ReaderIdle /\ LoadIdle /\ OrderIdle /\ ExtraIdle

InitRle == RleInit /\ AbrIdle /\ StrokeIdle /\ SideIdle

NextRle ==
  \/ RleEncodeLiteral
  \/ RleEncodeRepeat
  \/ RleEncodeNoop
  \/ RleFinish
  \/ RleTruncate
  \/ RleDecode

SpecRle == InitRle /\ [][NextRle]_vars

InitRleDepth == RleDepthInit /\ AbrIdle /\ StrokeIdle /\ SideIdle

SpecRleDepth == InitRleDepth /\ [][NextRle]_vars

RleIdleInit == RleIdle

InitSpacing == SpacingInit /\ AbrIdle /\ RleIdleInit /\ SideIdle

NextSpacing ==
  \/ CoarseBegin
  \/ CoarseAdd
  \/ CoarseEnd
  \/ FineBegin
  \/ FineAdd
  \/ FineEnd

SpecSpacing == InitSpacing /\ [][NextSpacing]_vars

InitParse == InitAbr /\ RleIdleInit /\ StrokeIdle /\ SideIdle

NextAbr ==
  \/ ParseAbrTooSmall
  \/ ParseAbrDispatch
  \/ V1V2Entry
  \/ V1V2Done
  \/ V6ScanBlock
  \/ V6ScanEnd
  \/ V6SampSkipBlock
  \/ V6SampEnter
  \/ V6SampleThrow
  \/ V6SampleBreak
  \/ V6Sample
  \/ V6SampExit
  \/ V6Desc
  \/ MergeStep
  \/ MergeDone

SpecAbr == InitParse /\ [][NextAbr]_vars

\* parseAbr is one synchronous call: whenever it has a next step, it takes it.
\* The steps that decode no region of the file.
ScanAbr ==
  \/ ParseAbrTooSmall
  \/ ParseAbrDispatch
  \/ V1V2Done
  \/ V6ScanBlock
  \/ V6ScanEnd
  \/ V6SampSkipBlock
  \/ V6SampEnter
  \/ V6SampleThrow
  \/ V6SampleBreak
  \/ V6SampExit
  \/ MergeStep
  \/ MergeDone

\* The steps that decode an entry, a sample or the descriptor.
DecodeAbr == V1V2Entry \/ V6Sample \/ V6Desc

\* The loop conditions under which a decoding step is the next statement.
DecodeReady ==
  \/ pc = "v1v2" /\ LegacyMore
  \/ /\ pc = "v6entry"
     /\ offset < blockEnd - 4
     /\ LET n == readUint32(buffer, offset)
        IN n.ok /\ ~(n.v < 1 \/ n.pos + n.v > blockEnd)
  \/ pc = "v6samp" /\ blockIdx > Len(blocks)

\* parseAbr is one synchronous call: whenever it has a next statement, it
\* runs it. For the decoding steps the enabling condition is written out.
SpecAbrLive ==
  /\ InitParse /\ [][NextAbr]_vars
  /\ WF_vars(ScanAbr)
  /\ ([]<>(~DecodeReady) \/ []<><<DecodeAbr>>_vars)

InitEngine ==
  /\ EngineInit /\ AbrIdle /\ RleIdleInit /\ NormIdle /\ DescIdle /\ ReaderIdle /\ LoadIdle
  /\ OrderIdle /\ ExtraIdle

NextEngine ==
  \/ EngineSetPreset
  \/ EngineSetColor
  \/ EngineBeginStroke
  \/ EngineAddPoint
  \/ EngineEndStroke

SpecEngine == InitEngine /\ [][NextEngine]_vars

InitNorm ==
  /\ NormInit /\ AbrIdle /\ RleIdleInit /\ StrokeIdle /\ CallsIdle /\ DescIdle /\ ReaderIdle
  /\ LoadIdle /\ OrderIdle /\ ExtraIdle

NextNorm ==
  \/ NormDecode
  \/ NormApply
  \/ NormTip

SpecNorm == InitNorm /\ [][NextNorm]_vars

InitOption ==
  /\ OptionInit /\ AbrIdle /\ RleIdleInit /\ StrokeIdle /\ CallsIdle /\ DescIdle /\ ReaderIdle
  /\ LoadIdle /\ OrderIdle /\ ExtraIdle

SpecOption == InitOption /\ [][NextNorm]_vars

InitController ==
  /\ CtlInit /\ AbrIdle /\ RleIdleInit /\ StrokeIdle /\ CallsIdle /\ NormIdle /\ DescIdle
  /\ ReaderIdle /\ LoadIdle /\ OrderIdle /\ LayerIdle

NextController == ApplyController

SpecController == InitController /\ [][NextController]_vars

InitLayers ==
  /\ LayerNew /\ AbrIdle /\ RleIdleInit /\ StrokeIdle /\ CallsIdle /\ NormIdle /\ DescIdle
  /\ ReaderIdle /\ LoadIdle /\ OrderIdle /\ CtlIdle

NextLayers ==
  \/ LayerInit
  \/ AddLayer
  \/ DeleteLayer
  \/ DuplicateLayer
  \/ ReorderLayer
  \/ MoveLayerUp
  \/ MoveLayerDown
  \/ MergeDown
  \/ Flatten
  \/ LayerDispose

SpecLayers == InitLayers /\ [][NextLayers]_vars

InitDesc ==
  /\ DescInit /\ AbrIdle /\ RleIdleInit /\ StrokeIdle /\ CallsIdle /\ NormIdle /\ ReaderIdle
  /\ LoadIdle /\ OrderIdle /\ ExtraIdle

NextDesc ==
  \/ DescDecode

SpecDesc == InitDesc /\ [][NextDesc]_vars

InitReader ==
  /\ ReaderInit /\ AbrIdle /\ RleIdleInit /\ StrokeIdle /\ CallsIdle /\ NormIdle
  /\ DescIdle /\ LoadIdle /\ OrderIdle /\ ExtraIdle

NextReader ==
  \/ ReaderUint8
  \/ ReaderInt8
  \/ ReaderUint16
  \/ ReaderInt16
  \/ ReaderUint32
  \/ ReaderInt32
  \/ ReaderFloat64
  \/ ReaderSignature
  \/ ReaderBytes
  \/ ReaderSkip
  \/ ReaderSeek

SpecReader == InitReader /\ [][NextReader]_vars

InitLoad ==
  /\ LoadInit /\ AbrIdle /\ RleIdleInit /\ StrokeIdle /\ CallsIdle /\ NormIdle
  /\ DescIdle /\ ReaderIdle /\ OrderIdle /\ ExtraIdle

NextLoad ==
  \/ LoadSkip
  \/ LoadCreate
  \/ LoadResolve
  \/ LoadReject
  \/ LoadReturn
  \/ LoadCatch

SpecLoad == InitLoad /\ [][NextLoad]_vars

InitOrder ==
  /\ OrderInit /\ RleIdleInit /\ StrokeIdle /\ CallsIdle /\ NormIdle /\ DescIdle
  /\ ReaderIdle /\ LoadIdle /\ ExtraIdle

\* The steps of parseAbr a whole version 6 file can take (it is never too
\* small, never legacy, and every sample length of it can be read).
NextOrder ==
  \/ ParseAbrDispatch
  \/ V6ScanBlock
  \/ V6ScanEnd
  \/ V6SampSkipBlock
  \/ V6SampEnter
  \/ V6SampleBreak
  \/ V6Sample
  \/ V6SampExit
  \/ V6Desc
  \/ MergeStep
  \/ MergeDone
  \/ OrderSwap

SpecOrder == InitOrder /\ [][NextOrder]_vars

\* ---- claims about parseAbr

SupportedVersions == {1, 2} \cup (6..10)

\* C1: the version field selects the decoder.  Versions 1 and 2 run the
\* legacy decoder and nothing of the resource-block decoder, versions 6 to
\* 10 run the resource-block decoder and nothing of the legacy one, and any
\* other version ends parseAbr with the unsupported-version error, no decoder
\* having run and no brush returned.
VersionDispatch ==
  (pc # "start" /\ Len(buffer) >= 4) =>
    /\ version = file.version
    /\ file.version \in {1, 2} =>
         /\ route = "legacy" /\ pc \in {"v1v2", "done"}
         /\ blocks = <<>> /\ descPresets = <<>>
    /\ file.version \in 6..10 =>
         /\ route = "v6" /\ pc \in {"v6scan", "v6samp", "v6entry", "merge", "done", "failed"}
         /\ error # "unsupported" /\ count = 0 /\ entryIdx = 0
    /\ file.version \notin SupportedVersions =>
         /\ pc = "failed" /\ error = "unsupported" /\ route = "none"
         /\ brushes = <<>> /\ entryLog = <<>> /\ blocks = <<>>

\* Version 11, one past the last supported version, has been rejected.
VersionDispatchWitness ==
  /\ pc = "failed" /\ error = "unsupported"
  /\ file.version = 11 /\ buffer[1] = 0 /\ buffer[2] = 11
  /\ Len(buffer) > 4 /\ brushes = <<>>

\* C2: a buffer of fewer than 4 bytes ends parseAbr with the truncated-input
\* error whatever its bytes are; the version has not been read, the cursor
\* has not moved and no decoder has been selected.
TruncatedHeaderFatal ==
  (Len(buffer) < 4 /\ pc # "start") =>
    /\ pc = "failed" /\ error = "too_small"
    /\ version = 0 - 1 /\ route = "none" /\ offset = 0
    /\ brushes = <<>> /\ entryLog = <<>> /\ blocks = <<>>

\* Three bytes that start like a legacy file (version 2) have been rejected.
TruncatedHeaderFatalWitness ==
  /\ pc = "failed" /\ error = "too_small"
  /\ buffer = <<0, 2, 0>>
  /\ version = 0 - 1

\* C3 as claimed: with a header and a supported version parseAbr does not
\* fail.
SupportedNeverFails ==
  (Len(buffer) >= 4 /\ file.version \in SupportedVersions) => pc # "failed"

\* What does hold: the legacy decoder never fails.
LegacyNeverFails ==
  (Len(buffer) >= 4 /\ file.version \in {1, 2}) => pc # "failed"

\* The brush the decoder logged for an entry is the one the entry describes.
DecodedAs(l, e) ==
  /\ l.pushed
  /\ l.brush.pixels = e.pix
  /\ l.brush.width = BoxWidth(e) /\ l.brush.height = BoxHeight(e)
  /\ l.brush.diameter = Max(BoxWidth(e), BoxHeight(e))
  /\ l.brush.spacing = IF route = "legacy" THEN Q(e.spacing, 100) ELSE Q(1, 4)
  /\ \E i \in 1..Len(brushes) : brushes[i] = l.brush

\* The sample loop reaches entry k (it stops at a declared length of zero).
Reached(k) == route = "legacy" \/ \A j \in 1..k : file.entries[j].form # "zero"

\* C4: corruption isolation.  In a legacy file and in a samp block, an entry
\* whose box gives a width or height <= 0 or > 5000 yields no brush, and a
\* well-formed entry right after it is decoded to the pixels, size and
\* spacing it describes, as it is after a well-formed entry.
CorruptionIsolation ==
  (pc = "done" /\ file.family = "pack") =>
    \A k \in 1..(Len(file.entries) - 1) :
      (/\ Reached(k + 1)
       /\ BadBox(file.entries[k]) \/ WellFormed(file.entries[k])
       /\ WellFormed(file.entries[k + 1]))
      => /\ Len(entryLog) >= k + 1
         /\ BadBox(file.entries[k]) => ~entryLog[k].pushed
         /\ WellFormed(file.entries[k]) => DecodedAs(entryLog[k], file.entries[k])
         /\ DecodedAs(entryLog[k + 1], file.entries[k + 1])

\* A samp block whose first sample has width -5 and whose second sample, a
\* run-length encoded 16-bit mask, has been decoded, and it alone.
CorruptionIsolationWitness ==
  /\ pc = "done" /\ file.family = "pack" /\ route = "v6"
  /\ file.entries = <<BadNegative, GoodRle16>>
  /\ ~entryLog[1].pushed
  /\ DecodedAs(entryLog[2], GoodRle16)
  /\ Len(brushes) = 1

\* The offset of entry k in the file as it was built.
EntryStart(f, k) ==
  IF IsLegacyVersion(f.version)
  THEN 4 + Len(Concat([j \in 1..(k - 1) |-> LegacyEntryBytes(f.entries[j])]))
  ELSE 16 + Len(Concat([j \in 1..(k - 1) |-> SampleBytes(f.entries[j])]))

\* C5: after every entry the cursor is the entry's data start plus its
\* declared length (plus the alignment padding in a samp block), whatever
\* the entry consumed; so every entry is read at the offset it has in the
\* file, whatever the entries before it did.
CursorFromDeclaredLength ==
  \A k \in 1..Len(entryLog) :
    LET l == entryLog[k] IN
    /\ l.after = l.dataStart + l.declared
                   + (IF route = "v6" THEN (4 - (l.declared % 4)) % 4 ELSE 0)
    /\ k < Len(entryLog) => entryLog[k + 1].at = l.after
    /\ (k = Len(entryLog) /\ pc \in {"v1v2", "v6entry"}) => offset = l.after
    /\ file.family \in {"pack", "cut"} => l.at = EntryStart(file, k)

\* A first entry whose mask is read past its declared end (a long read),
\* then an entry that leaves declared bytes unread (a short read) and was
\* decoded at its own offset.
CursorFromDeclaredLengthWitness ==
  /\ Len(entryLog) = 2
  /\ file.entries = <<HeadOnly, GoodSlack>>
  /\ entryLog[1].consumed > entryLog[1].dataStart + entryLog[1].declared
  /\ entryLog[2].consumed < entryLog[2].dataStart + entryLog[2].declared
  /\ entryLog[2].at = EntryStart(file, 2)
  /\ DecodedAs(entryLog[2], GoodSlack)

\* preset.Brsh.sampledData
PresetId(preset) == Prop(Prop(preset, KeyBrsh), KeySampledData)

\* The preset's identifier is the brush's, padded with nulls and white space.
PresetMatches(preset, b) ==
  /\ b.brushId # <<>>
  /\ PresetId(preset).t = "str"
  /\ Trim(StripNulls(PresetId(preset).s)) = b.brushId

\* C6 as claimed: when parseAbr returns, every sample whose identifier a
\* preset carries (padded or not) has the dynamics the normalizer produces
\* for a preset carrying it.
IdentifierLinking ==
  pc = "done" =>
    \A i \in 1..Len(brushes) :
      (\E p \in 1..Len(descPresets) : PresetMatches(descPresets[p], brushes[i]))
      => \E q \in 1..Len(descPresets) :
           /\ PresetMatches(descPresets[q], brushes[i])
           /\ brushes[i].dynamics = descriptorToDynamics(descPresets[q])

\* What does hold: the last sample with an identifier gets the dynamics of
\* the last preset carrying it.
IdentifierLinkingLast ==
  pc = "done" =>
    \A i \in 1..Len(brushes) :
      (/\ \E p \in 1..Len(descPresets) : PresetMatches(descPresets[p], brushes[i])
       /\ \A j \in (i + 1)..Len(brushes) : brushes[j].brushId # brushes[i].brushId)
      => LET q == CHOOSE q \in 1..Len(descPresets) :
                    /\ PresetMatches(descPresets[q], brushes[i])
                    /\ \A r \in (q + 1)..Len(descPresets) :
                         ~PresetMatches(descPresets[r], brushes[i])
         IN brushes[i].dynamics = descriptorToDynamics(descPresets[q])

\* The brushes as the sample loop pushed them.
PushedBrushes ==
  LET pushed == SelectSeq(entryLog, LAMBDA l : l.pushed)
  IN [i \in 1..Len(pushed) |-> pushed[i].brush]

\* A sample that no preset of the file matches is as the sample loop pushed
\* it (name, spacing, no dynamics), and is imported with the default dynamics.
UnmatchedSamplesKept ==
  pc \in {"merge", "done", "failed"} =>
    /\ Len(brushes) = Len(PushedBrushes)
    /\ \A i \in 1..Len(brushes) :
         (\A p \in 1..Len(descPresets) : ~PresetMatches(descPresets[p], brushes[i]))
         => /\ brushes[i] = PushedBrushes[i]
            /\ ~brushes[i].dynamics.defined
            /\ ImportDynamics(brushes[i]) = defaultDynamics

\* A preset that matches no sample changes no sample.
UnmatchedPresetChangesNothing ==
  (/\ pc = "merge" /\ mergeIdx <= Len(descPresets)
   /\ \A i \in 1..Len(brushes) : ~PresetMatches(descPresets[mergeIdx], brushes[i]))
  => brushes' = brushes

\* C7: the merge step changes only matched samples.  The step for a preset
\* whose identifier matches no sample leaves every sample as it is, and a
\* sample matched by no preset keeps its name and spacing, gets no decoded
\* dynamics, and is imported with the default dynamics.
MergeChangesOnlyMatched ==
  /\ [][UnmatchedPresetChangesNothing]_vars
  /\ []UnmatchedSamplesKept

\* The merge is over for samples "abc" and "de" with the presets "abc\0\0"
\* and "xyz": the first sample has the preset's name and dynamics, the
\* second is as it was decoded.
MergeChangesOnlyMatchedWitness ==
  /\ pc = "done" /\ mergeIdx = 3
  /\ file.presets = <<PresetPadded, PresetXyz>>
  /\ Len(brushes) = 2
  /\ brushes[1].brushId = IdAbc /\ brushes[1].dynamics.defined
  /\ brushes[1].name = <<73, 110, 107>>
  /\ brushes[2].brushId = IdDe /\ brushes[2] = PushedBrushes[2]
  /\ brushes[2].name = BrushName(2) /\ brushes[2].spacing = Q(1, 4)

\* ---- claims about readRlePixels and the stroke engine

\* C8: RLE round trip.  A channel encoded with literal runs, repeat runs and
\* no-op bytes behind its scanline headers, and decoded from the whole
\* stream, comes back sample for sample, at 8-bit and at 16-bit depth.
RleRoundTrip ==
  (rlePc = "decoded" /\ ~rleCut) => (rleOut.ok /\ rleOut.pixels = rleSrc)

\* A 16-bit channel of more than one scanline, with a repeat run in it and
\* two different sample values, decoded from the whole stream.
RleRoundTripWitness ==
  /\ rlePc = "decoded" /\ ~rleCut /\ rleDepth = 16 /\ rleH >= 2
  /\ \E i \in 1..Len(rleBody) : rleBody[i] = 255 /\ rleBody[i + 1] = 200
  /\ \E i, j \in 1..Len(rleSrc) : rleSrc[i] # rleSrc[j]
  /\ rleOut.pixels = rleSrc

\* C9 as claimed: the decoder never fails, whatever is left of the stream.
RleNeverFails ==
  rlePc = "decoded" => rleOut.ok

\* What does hold of a stream cut short: the decoder either fails with the
\* reader's out-of-bounds error or returns a mask whose decoded prefix is a
\* prefix of the source and whose tail is zero.
RleTruncatedPrefix ==
  (rlePc = "decoded" /\ rleOut.ok) =>
     \E n \in 0..Len(rleSrc) :
        /\ SubSeq(rleOut.pixels, 1, n) = SubSeq(rleSrc, 1, n)
        /\ \A i \in (n + 1)..Len(rleSrc) : rleOut.pixels[i] = 0

\* The stamps that addPoint placed in the k-th stroke of the log (a stroke
\* starts at each stamp that beginStroke placed).
AddedIn(log, k) ==
  Cardinality({i \in 1..Len(log) :
                 /\ log[i].op = "add"
                 /\ Cardinality({j \in 1..i : log[j].op = "begin"}) = k})

CoarseStamps == AddedIn(stamps, 1)
FineStamps == AddedIn(stamps, 2)
\* floor(L / max(1, D x S))
ExpectedPlacements == PathLength \div SpacingPx(engine)

\* C10 as claimed: both strokes place floor(L / max(1, D x S)) stamps after
\* the initial one, within 1, and so the same number within 1.
SpacingInvarianceAsClaimed ==
  strokePc = "done" =>
    /\ Abs(CoarseStamps - ExpectedPlacements) <= 1
    /\ Abs(FineStamps - ExpectedPlacements) <= 1

\* C10, amended: the path fed as one addPoint call and fed as NSub evenly
\* subdivided calls places the same number of stamps after the initial one,
\* namely n x floor(L / max(1, D x S)) with n = max(1, round(scatterCount))
\* the stamps per placement.
SpacingInvariance ==
  strokePc = "done" =>
    /\ CoarseStamps = FineStamps
    /\ FineStamps = StampsPerPlacement(engine) * ExpectedPlacements

\* Both strokes done on a path several thresholds long whose pieces are each
\* shorter than the threshold, with more than one stamp per placement.
SpacingInvarianceWitness ==
  /\ strokePc = "done"
  /\ path.step * path.dir[3] < SpacingPx(engine)
  /\ ExpectedPlacements >= 3
  /\ StampsPerPlacement(engine) = 3
  /\ FineStamps = 3 * ExpectedPlacements

(***************************************************************************)
(* The stroke engine under arbitrary calls.                                *)
(***************************************************************************)

\* The stroke state the claim prescribes after beginStroke at point p.
ResetStroke(p) == [lastX |-> p[1], lastY |-> p[2], dir |-> <<1, 0, 1>>,
                   distanceAccum |-> 0, active |-> TRUE]

StampAt(d, p) == d.at.toX = p[1] /\ d.at.toY = p[2] /\ d.at.num = 0

LastLifecycle ==
  LET ks == {k \in 1..Len(calls) : calls[k].op \in {"beginStroke", "endStroke"}}
  IN IF ks = {} THEN "none" ELSE calls[CHOOSE k \in ks : \A j \in ks : j <= k].op

\* C12: The engine is idle or active: active exactly from a beginStroke
\* until the next endStroke; a beginStroke while active replaces the stroke
\* state; an addPoint while idle places no stamp and changes no field of the
\* stroke state.
IdleAndActive ==
  /\ stroke.active \in BOOLEAN
  /\ stroke.active <=> (LastLifecycle = "beginStroke")
  /\ \A k \in 1..Len(calls) :
       /\ (calls[k].op = "beginStroke" /\ calls[k].before.active)
            => calls[k].after = ResetStroke(calls[k].arg)
       /\ (calls[k].op = "addPoint" /\ ~calls[k].before.active)
            => calls[k].after = calls[k].before /\ calls[k].drawn = <<>>
       /\ calls[k].op \in {"setPreset", "setColor"}
            => calls[k].after = calls[k].before /\ calls[k].drawn = <<>>

\* A stroke was begun while another was active, and later, after endStroke,
\* a point away from the last position was added while idle.
IdleAndActiveWitness ==
  /\ \E k \in 1..Len(calls) : calls[k].op = "beginStroke" /\ calls[k].before.active
  /\ \E k \in 2..Len(calls) :
       /\ calls[k].op = "addPoint" /\ calls[k - 1].op = "endStroke"
       /\ calls[k].arg # <<calls[k].before.lastX, calls[k].before.lastY>>

\* C17: The tinted-stamp cache is never stale: every stamp drawn by a call
\* shows the color and the tip the engine had when the call was made, and
\* after a setColor that changed the color or a setPreset the cache is empty.
TintedStampFresh ==
  \A k \in 1..Len(calls) :
    /\ \A i \in 1..Len(calls[k].drawn) :
         /\ calls[k].drawn[i].image.color = calls[k].engineBefore.color
         /\ calls[k].drawn[i].image.tip = calls[k].engineBefore.tip
    /\ (calls[k].op = "setColor" /\ calls[k].arg # calls[k].engineBefore.color)
         => calls[k].engineAfter.tintedStamp = NullStamp
    /\ calls[k].op = "setPreset" => calls[k].engineAfter.tintedStamp = NullStamp

\* A stamp is drawn with a cached canvas in place, the tip is then changed
\* by setPreset, and another stamp is drawn.
TintedStampFreshWitness ==
  \E k \in 2..Len(calls) :
    /\ calls[k - 1].op = "setPreset"
    /\ calls[k - 1].engineBefore.tintedStamp # NullStamp
    /\ calls[k - 1].arg.tip # calls[k - 1].engineBefore.tip
    /\ calls[k].drawn # <<>>

(***************************************************************************)
(* The dynamics normalizer.                                                *)
(***************************************************************************)

InUnitRange(q) == q.den > 0 /\ q.num >= 0 /\ q.num <= q.den

Controllers(dyn) == {dyn.size, dyn.angle, dyn.roundness, dyn.scatter, dyn.opacity, dyn.flow}

\* The preset was decoded as it was written.
NormDecoded == normPc # "encoded" => normDesc = normIn.preset

\* C13: Every controller of the dynamics the normalizer produces has its
\* jitter and its minimum in [0,1].
ControllersInUnitRange ==
  normPc \in {"normalized", "done"}
    => \A c \in Controllers(normOut) : InUnitRange(c.jitter) /\ InUnitRange(c.minimum)

\* The tip built from a raw brush has a positive spacing.
TipSpacingPositive == normPc = "done" => IsPositive(normTip)

\* C14: Spacing is always > 0, in the tip built from a raw brush and in the
\* dynamics the normalizer produces.
SpacingPositive ==
  /\ normPc \in {"normalized", "done"} => IsPositive(normOut.spacing)
  /\ TipSpacingPositive

(***************************************************************************)
(* The descriptor decoder.                                                 *)
(***************************************************************************)

\* An unknown tag in the outermost object: the descriptor decodes to the keys
\* that precede it.
UnknownTagKeepsSiblings ==
  (descPc # "encoded" /\ descIn.depth = 0) => descOut.ok /\ descOut.v = descIn.local

\* An unknown tag that is the last thing in its object, with no bytes of its
\* own: the objects around it decode in full.
UnknownTagAtEnd ==
  (descPc # "encoded" /\ descIn.after = 0 /\ descIn.payload = <<>>)
    => descOut.ok /\ descOut.v = descIn.local

\* C18: An unknown type tag is a local failure: the descriptor decodes, the
\* object that holds the tag keeps the keys decoded before it and loses the
\* rest, and every enclosing object keeps all of its keys, the later ones
\* included.
UnknownTagLocal ==
  descPc # "encoded" => descOut.ok /\ descOut.v = descIn.local

(***************************************************************************)
(* The byte reader.                                                        *)
(***************************************************************************)

\* The number of bytes a read decodes.
ReadWidth(call) ==
  CASE call.op \in {"readUint8", "readInt8"} -> 1
    [] call.op \in {"readUint16", "readInt16"} -> 2
    [] call.op \in {"readUint32", "readInt32", "readSignature"} -> 4
    [] call.op = "readFloat64" -> 8
    [] call.op = "readBytes" -> call.n
    [] OTHER -> 0

IsRead(call) == call.op \notin {"new", "none", "skip", "seek"}

\* C20: Every read that returns has advanced the cursor by exactly the number
\* of bytes it decodes, and a read that would extend past the end of the
\* buffer fails instead of returning.
ByteReaderContract ==
  IsRead(rdLast) =>
    /\ rdLast.ok => rdOffset = rdLast.before + ReadWidth(rdLast)
    /\ rdLast.before + ReadWidth(rdLast) > Len(rdView) => ~rdLast.ok

\* A four-byte read that starts inside the buffer and ends past it.
ByteReaderContractWitness ==
  /\ rdLast.op = "readUint32" /\ ~rdLast.ok
  /\ rdLast.before < Len(rdView)
  /\ rdLast.before + 4 > Len(rdView)
  /\ rdLast.before > 0

(***************************************************************************)
(* The import.                                                             *)
(***************************************************************************)

\* The brushes of the file that loadAbrFile does not skip and whose image
\* resource builds.
Buildable == {i \in 1..Len(rawBrushes) : ~Skipped(rawBrushes[i]) /\ rawBrushes[i].builds}

\* C15: A failure to build the image resource of one brush is confined to
\* that brush: when the import is over, every other brush of the file whose
\* resource builds is among the presets.
ResourceFailureConfined ==
  loadPc \in {"imported", "failed"}
    => \A i \in Buildable : \E k \in 1..Len(libPresets) : libPresets[k].src = i

\* Without a failing brush the import returns every brush it does not skip.
ImportReturnsAll ==
  (loadPc \in {"imported", "failed"}
     /\ \A i \in 1..Len(rawBrushes) : Skipped(rawBrushes[i]) \/ rawBrushes[i].builds)
    => /\ loadPc = "imported"
       /\ {libPresets[k].src : k \in 1..Len(libPresets)} = Buildable

OrderDone == orderRun = 2 /\ pc \in {"done", "failed"}

\* No sample was read beyond its declared end.
ReadsInside(log) ==
  \A i \in 1..Len(log) : log[i].consumed <= log[i].dataStart + log[i].declared

\* Of the steps of parseAbr, the ones left out of NextOrder are never enabled.
OrderStepsComplete ==
  orderRun > 0 =>
    /\ ~ENABLED ParseAbrTooSmall
    /\ ~ENABLED V1V2Entry
    /\ ~ENABLED V1V2Done
    /\ ~ENABLED V6SampleThrow

\* When, in both orders, every sample is read within its declared length,
\* parseAbr returns the same brushes in both orders.
BlockOrderIndependentInside ==
  (OrderDone /\ ReadsInside(entryLog) /\ ReadsInside(firstRun.entryLog))
    => pc = firstRun.pc /\ error = firstRun.error /\ brushes = firstRun.brushes

\* Both orders are parsed to the end, with a brush that took dynamics from the
\* desc block, and no sample is read beyond its declared end.
BlockOrderIndependentInsideReached ==
  /\ OrderDone /\ pc = "done" /\ firstRun.pc = "done"
  /\ ReadsInside(entryLog) /\ ReadsInside(firstRun.entryLog)
  /\ Len(brushes) = 2
  /\ \E i \in 1..Len(brushes) : brushes[i].dynamics.defined

\* C19: In the resource-block container the result does not depend on the
\* order of the blocks: for a file of one samp block and one desc block,
\* parseAbr returns the same brushes (pixels, names, spacing, dynamics)
\* whether the desc block comes before or after the samp block.
BlockOrderIndependent ==
  OrderDone => pc = firstRun.pc /\ error = firstRun.error /\ brushes = firstRun.brushes

\* ---- claims about unsupported depths

\* readRlePixels has no branch for the depth: whatever depth is not 16 is
\* decoded as one byte per sample.
RleUnsupportedDepthDecoded ==
  (rlePc = "decoded" /\ ~rleCut /\ rleDepth \in UnsupportedDepths)
    => rleOut.ok /\ rleOut.pixels = rleSrc /\ rleOut.pos = Len(rleStream)

\* readRawPixels, for a legacy entry of an unsupported depth that is stored
\* uncompressed: the mask is all 255 and the brush is kept.
RawUnsupportedDepthFilled ==
  (file # <<>> /\ file.family = "pack" /\ route = "legacy") =>
    \A i \in 1..Len(entryLog) :
      (file.entries[i].depth \notin {8, 16} /\ file.entries[i].comp = 0
         /\ file.entries[i].form = "full" /\ file.entries[i].type = 2)
        => /\ entryLog[i].pushed
           /\ entryLog[i].brush.pixels
                = Fill(entryLog[i].brush.width * entryLog[i].brush.height, 255)

\* C21: For a bit depth other than 8 or 16 the run-length decoder does not
\* decode: the mask it returns is filled with 255.
RleUnsupportedDepthFilled ==
  (rlePc = "decoded" /\ ~rleCut /\ rleDepth \notin {8, 16})
    => rleOut.ok /\ rleOut.pixels = Fill(RleTotal, 255)

\* ---- claims about the alignment of samples

\* The start of the payload of the samp block.
SampStart ==
  LET hits == {i \in 1..Len(blocks) : blocks[i].key = KeySamp}
  IN blocks[CHOOSE i \in hits : \A j \in hits : i <= j].start

\* C22: In the samp block, after each sample the cursor is at the sample's
\* declared end plus the alignment padding, and the next sample starts on a
\* 4-byte boundary (counted from the start of the block's payload, where the
\* first sample starts), whatever the declared lengths are.
SampleAlignment ==
  (route = "v6" /\ entryLog # <<>>) =>
    /\ entryLog[1].at = SampStart
    /\ \A k \in 1..Len(entryLog) :
         LET l == entryLog[k] IN
         /\ l.after >= l.dataStart + l.declared
         /\ l.after < l.dataStart + l.declared + 4
         /\ (l.after - SampStart) % 4 = 0
         /\ k < Len(entryLog) => entryLog[k + 1].at = l.after

\* Two samples were read, the first of a declared length that is not a
\* multiple of 4 and the second right after its padding.
SampleAlignmentWitness ==
  /\ route = "v6" /\ pc = "done" /\ Len(entryLog) = 2
  /\ entryLog[1].declared % 4 # 0
  /\ entryLog[2].declared % 4 # 0
  /\ entryLog[1].declared % 4 # entryLog[2].declared % 4
  /\ entryLog[2].pushed

\* ---- claims about the tool options and the scatter count

Normalized == normPc \in {"normalized", "done"}

\* The preset decodes to what it was built as.
OptionDecoded == normPc # "encoded" => normDesc = normIn.preset

\* C23: The tool-option flags change a controller only when it is off:
\* "pressure overrides size" sets the size controller to pressure exactly when
\* the size controller is off, "pressure overrides opacity" does so for the
\* opacity controller, a controller that is not off is left as it is, and
\* nothing else of the dynamics changes.
FlagsOnlyWhenOff ==
  Normalized =>
    LET b == BeforeToolOptions(normIn.preset)
        a == normOut
    IN /\ a.size = IF normIn.flagSize /\ b.size.control = "off"
                   THEN [control |-> "pressure", jitter |-> Zero, minimum |-> Q(1, 10),
                         fadeSteps |-> VNum(Zero)]
                   ELSE b.size
       /\ a.opacity = IF normIn.flagOpacity /\ b.opacity.control = "off"
                      THEN [control |-> "pressure", jitter |-> Zero, minimum |-> Zero,
                            fadeSteps |-> VNum(Zero)]
                      ELSE b.opacity
       /\ b.size.control # "off" => a.size = b.size
       /\ b.opacity.control # "off" => a.opacity = b.opacity
       /\ [a EXCEPT !.size = b.size, !.opacity = b.opacity] = b

\* Both flags are set: the size controller was off and is now pressure, the
\* opacity controller was tilt and still is.
FlagsOnlyWhenOffWitness ==
  /\ Normalized
  /\ normIn.flagSize /\ normIn.flagOpacity
  /\ BeforeToolOptions(normIn.preset).size.control = "off"
  /\ BeforeToolOptions(normIn.preset).opacity.control = "tilt"
  /\ normOut.size.control = "pressure"
  /\ normOut.opacity.control = "tilt"
  /\ IsPositive(normOut.opacity.jitter)

\* Without the use-scatter flag, or without a count, the count is 1.
ScatterCountDefault ==
  (Normalized /\ (~normIn.useScatter \/ ~normIn.hasCnt))
    => normOut.scatterCount = VNum(Q(1, 1))

\* C25: scatterCount is >= 1 in the defaults and in every record the
\* normalizer produces, whatever count the descriptor gives and whether or
\* not the use-scatter flag is set.
ScatterCountAtLeastOne ==
  /\ defaultDynamics.scatterCount.n.num >= defaultDynamics.scatterCount.n.den
  /\ Normalized =>
       /\ normOut.scatterCount.t = "num"
       /\ normOut.scatterCount.n.den > 0
       /\ normOut.scatterCount.n.num >= normOut.scatterCount.n.den

\* ---- claims about the controller multiplier

\* The multiplier of a pressure-controlled parameter, of one that is off,
\* fading or direction-controlled, and of a tilt-controlled one while the
\* tilt magnitude is at most 90 degrees.
MultiplierWithinTilt ==
  ctlCall # <<>> =>
    LET c == ctlCall
        min == c.ctrl.minimum
    IN /\ c.ctrl.control = "pressure"
            => /\ c.result = QAdd(min, QMul(QSub(One, min), c.pressure))
               /\ QLeq(min, c.result) /\ QLeq(c.result, One)
       /\ c.ctrl.control \in {"off", "direction", "fade"} => c.result = One
       /\ (c.ctrl.control = "tilt" /\ c.tiltX * c.tiltX + c.tiltY * c.tiltY <= 8100)
            => /\ c.result = QAdd(min, QMul(QSub(One, min), Q(TiltMagnitude(c.tiltX, c.tiltY), 90)))
               /\ QLeq(min, c.result) /\ QLeq(c.result, One)

\* C24: The per-stamp multiplier of a controller is minimum + (1 - minimum) x
\* pressure under pressure control, minimum + (1 - minimum) x
\* min(1, tiltMagnitude / 90) under tilt control and 1 under off, direction
\* and fade; for pressure in [0,1] and every tilt vector it is in [minimum, 1].
ControllerMultiplier ==
  ctlCall # <<>> =>
    LET c == ctlCall
        min == c.ctrl.minimum
        capped == QMin(One, Q(TiltMagnitude(c.tiltX, c.tiltY), 90))
    IN /\ c.result = CASE c.ctrl.control = "pressure" -> QAdd(min, QMul(QSub(One, min), c.pressure))
                       [] c.ctrl.control = "tilt" -> QAdd(min, QMul(QSub(One, min), capped))
                       [] OTHER -> One
       /\ QLeq(min, c.result)
       /\ QLeq(c.result, One)

\* ---- claims about ambiguous identifiers

\* Two samples of the file carry the identifier of brush i, or two presets do.
Ambiguous(i) ==
  \/ \E j \in 1..Len(brushes) : j # i /\ brushes[j].brushId = brushes[i].brushId
  \/ \E p, q \in 1..Len(descPresets) :
       p # q /\ PresetMatches(descPresets[p], brushes[i])
             /\ PresetMatches(descPresets[q], brushes[i])

\* C26: The merge flags ambiguous cases instead of silently picking one: when
\* two samples carry the same identifier, or two presets do, parseAbr does
\* not return without an error having attached a preset's metadata to just
\* one sample, or just one of the presets' metadata to the sample.
AmbiguityFlagged ==
  (pc = "done" /\ error = "none") =>
    \A i \in 1..Len(brushes) :
      (/\ \E p \in 1..Len(descPresets) : PresetMatches(descPresets[p], brushes[i])
       /\ Ambiguous(i))
      => /\ ~brushes[i].dynamics.defined
         /\ brushes[i] = PushedBrushes[i]

\* ---- claims about the accumulator and the position of stamps

\* The beginStroke that opened the stroke call k is made on.
StrokeBegin(k) ==
  LET ks == {j \in 1..k : calls[j].op = "beginStroke"}
  IN CHOOSE j \in ks : \A i \in ks : i <= j

\* Call k is an addPoint on an active stroke.
ActiveAddPoint(k) == calls[k].op = "addPoint" /\ calls[k].before.active

\* The brush size and spacing have not changed since the stroke of call k began.
UnchangedSinceBegin(k) ==
  \A j \in StrokeBegin(k)..k :
    /\ calls[j].engineAfter.size = calls[StrokeBegin(k)].engineBefore.size
    /\ calls[j].engineAfter.spacing = calls[StrokeBegin(k)].engineBefore.spacing

\* C27: After every addPoint on an active stroke, with the brush size and
\* spacing unchanged since beginStroke, 0 <= distanceAccum < max(1, size x
\* spacing); and distanceAccum >= 0 after every call.
AccumulatorBelowThreshold ==
  /\ stroke.distanceAccum >= 0
  /\ \A k \in 1..Len(calls) :
       /\ calls[k].after.distanceAccum >= 0
       /\ (ActiveAddPoint(k) /\ UnchangedSinceBegin(k))
            => calls[k].after.distanceAccum < SpacingPx(calls[k].engineAfter)

\* One stroke: an addPoint that stays below the threshold and carries its
\* length over, then one that crosses it, places stamps and keeps a rest.
AccumulatorBelowThresholdWitness ==
  \E k \in 3..Len(calls) :
    /\ ActiveAddPoint(k) /\ ActiveAddPoint(k - 1) /\ UnchangedSinceBegin(k)
    /\ calls[k - 1].drawn = <<>> /\ calls[k - 1].after.distanceAccum > 0
    /\ calls[k].drawn # <<>> /\ calls[k].after.distanceAccum > 0

\* With the size and spacing unchanged since beginStroke, every stamp of an
\* addPoint lies on the segment.
StampsOnSegmentUnchanged ==
  \A k \in 1..Len(calls) :
    (ActiveAddPoint(k) /\ UnchangedSinceBegin(k))
      => \A i \in 1..Len(calls[k].drawn) :
           calls[k].drawn[i].at.num >= 0 /\ calls[k].drawn[i].at.num <= calls[k].drawn[i].at.den

\* C28: Every stamp that addPoint places lies on the segment from the last
\* position to the new point (its interpolation parameter is in [0,1]), for
\* any sequence of calls, setPreset calls that change the spacing threshold
\* between two addPoint calls of the same stroke included.
StampsOnSegment ==
  \A k \in 1..Len(calls) :
    calls[k].op = "addPoint"
      => \A i \in 1..Len(calls[k].drawn) :
           calls[k].drawn[i].at.num >= 0 /\ calls[k].drawn[i].at.num <= calls[k].drawn[i].at.den

\* ---- claims about the LayerManager

\* C29: After init and until dispose, whatever addLayer, deleteLayer,
\* duplicateLayer, reorderLayer, moveLayerUp, moveLayerDown, mergeDown and
\* flatten calls are made, the layer list is never empty, the layer ids are
\* pairwise distinct and activeLayerId is the id of a layer in the list.
LayerListSound ==
  lmPc = "ready" =>
    /\ layers # <<>>
    /\ \A i, j \in 1..Len(layers) : i # j => layers[i] # layers[j]
    /\ \E i \in 1..Len(layers) : layers[i] = activeLayerId

\* Three layers out of creation order, the active one at the bottom, after a
\* layer has gone.
LayerListSoundWitness ==
  /\ lmPc = "ready"
  /\ Len(layers) = 3
  /\ layers[1] > layers[2]
  /\ activeLayerId = layers[1]
  /\ nextId > 4

\* ---- claims about termination

ParseOver == pc \in {"done", "failed"}

\* Every iteration of the legacy entry loop, of the block scan and of the
\* sample loop moves the cursor forward, and every iteration of the merge
\* loop moves to the next preset.
LoopsProgress ==
  [][/\ (pc \in {"v1v2", "v6scan", "v6entry"} /\ pc' = pc) => offset' > offset
     /\ (pc = "v1v2" /\ pc' = pc) => entryIdx' = entryIdx + 1
     /\ (pc = "merge" /\ pc' = pc) => mergeIdx' = mergeIdx + 1]_vars

\* The cursor and the loop indices are bounded by the buffer and by what it
\* declares.
LoopsBounded ==
  /\ pc = "v1v2" => entryIdx <= count
  /\ Len(blocks) * 12 <= Len(buffer)
  /\ pc = "merge" => mergeIdx <= Len(descPresets) + 1

\* The written-out loop conditions are the states from which a decoding step
\* is taken: a step from such a state is a decoding step, and a decoding
\* step starts from such a state.
DecodeReadyExact ==
  [][(DecodeReady => DecodeAbr) /\ (DecodeAbr => DecodeReady)]_vars

\* C30: parseAbr terminates on every buffer: it returns or throws after
\* finitely many steps of the legacy entry loop, the block scan, the sample
\* loop, the descriptor decoder and the merge, whatever counts, lengths and
\* nesting the buffer declares.
ParseTerminates == <>ParseOver

\* parseAbr has returned from a resource-block file after two samples, the
\* desc block and two presets.
ParseTerminatesWitness ==
  /\ pc = "done" /\ route = "v6"
  /\ Len(entryLog) = 2 /\ Len(descPresets) = 2 /\ mergeIdx = 3

====
